---- MODULE Spec2Model ----
(***************************************************************************)
(* The declarative encode / merge subsystem of go-logicboxes:              *)
(*   - the record encoders  contact.Detail.URLValues,                      *)
(*     contact.Criteria.URLValues, customer.Detail.URLValues,              *)
(*     customer.Criteria.URLValues, customer.SignUpForm.URLValues and the  *)
(*     parameter building of the goroutine-based domain.CheckAvailability; *)
(*   - the attribute list  core.entityAttributes  (Add/Get/Del/URLValues/  *)
(*     CopyTo);                                                            *)
(*   - customer.Detail.mergePrevious.                                      *)
(* Goroutines are modelled one step per synchronisation point: a worker    *)
(* evaluates its guards, takes the mutex, and then adds, unlocks and       *)
(* signals its WaitGroup.                                                  *)
(***************************************************************************)
EXTENDS Integers, Sequences, FiniteSets, TLC

VARIABLES
    op,         \* the operation being called
    rec,        \* its receiver / argument record: field name -> value
    pc,         \* position of the calling goroutine
    i,          \* loop index of the calling goroutine
    workers,    \* worker id -> [pc, key, val] for every goroutine started
    wg,         \* WaitGroup id -> counter
    rwMutex,    \* id of the worker holding the mutex, or Free
    urlValues,  \* the url.Values being built: key -> sequence of values
    ret,        \* what the call returned, or NotReturned
    prev,       \* mergePrevious: the previous record
    orig,       \* mergePrevious: the modification as it was when the call began
    data,       \* entityAttributes.data
    hist,       \* Add/Del calls made on the entityAttributes so far
    got         \* result of the last Get / URLValues / CopyTo call

vars == <<op, rec, pc, i, workers, wg, rwMutex, urlValues, ret, prev, orig, data, hist, got>>

-----------------------------------------------------------------------------
(* Bounds of the model.                                                    *)

\* longest slice handed to an encoder
MaxSlice == 2
\* most non-zero scalars and slice elements in a record given to a goroutine encoder
MaxLoad == 3
\* most Add/Del calls made on one attribute list
MaxOps == 3

-----------------------------------------------------------------------------
(* Values.                                                                 *)

Free == <<>>
\* url.Values{}
EmptyValues == <<>>
NotReturned == [tag |-> "none"]
\* no Get, URLValues or CopyTo result is at hand
NoCall == [call |-> "none"]

RECURSIVE SeqsUpTo(_, _)
SeqsUpTo(S, n) ==
    IF n = 0 THEN {<<>>}
    ELSE LET shorter == SeqsUpTo(S, n - 1)
         IN  shorter \cup {Append(s, x) : s \in {t \in shorter : Len(t) = n - 1}, x \in S}

Range(s) == {s[k] : k \in DOMAIN s}

\* the multiset of the elements of a sequence
BagOf(s) == [x \in Range(s) |-> Cardinality({k \in DOMAIN s : s[k] = x})]

\* strconv.Itoa for the non-negative numbers the model meets
Digit(d) == <<"0", "1", "2", "3", "4", "5", "6", "7", "8", "9">>[d + 1]
RECURSIVE Itoa(_)
Itoa(n) == IF n < 10 THEN Digit(n) ELSE Itoa(n \div 10) \o Digit(n % 10)

\* strconv.FormatBool
FormatBool(b) == IF b THEN "true" ELSE "false"

\* strconv.FormatFloat(v, 'f', 2, 64); a float is held in thousandths and
\* is rounded half-up to two decimals (the values of the model are exact)
FormatFloat(v) ==
    LET cents == (v + 5) \div 10
        frac  == cents % 100
    IN  Itoa(cents \div 100) \o "." \o Digit(frac \div 10) \o Digit(frac % 10)

-----------------------------------------------------------------------------
(* Field tags.  A query tag is kept as the raw text of the struct tag and  *)
(* its split at the last comma, which is all strings.HasSuffix and         *)
(* strings.TrimSuffix look at.                                             *)

Tag(raw, name, opt) == [raw |-> raw, name |-> name, opt |-> opt]
NoTag == Tag("", "", "")
Dash == Tag("-", "-", "")

\* a comparison of the whole tag where the suffix was meant
HasSuffixWholeTag(tag, suffix) == tag.raw = suffix

\* strings.HasSuffix(tag, ",optional") / strings.HasSuffix(tag, "omitempty")
HasSuffix(tag, suffix) == tag.opt # "" /\ tag.opt = suffix

\* strings.TrimSuffix(tag, "," + suffix)
TrimSuffix(tag, suffix) == IF tag.opt # "" /\ tag.opt = suffix THEN tag.name ELSE tag.raw

Rule(r, n) == [r |-> r, n |-> n]
Field(name, tag, kind, gotype, rules, dom) ==
    [name |-> name, tag |-> tag, kind |-> kind, gotype |-> gotype, rules |-> rules, dom |-> dom]

\* reflect.Value.IsZero for the kinds the records hold
IsZero(kind, v) ==
    CASE kind = "string" -> v = ""
      [] kind = "bool"   -> v = FALSE
      [] kind = "slice"  -> v = <<>>
      [] kind = "float"  -> v = 0
      [] kind = "uint"   -> v = 0
      [] OTHER           -> FALSE

-----------------------------------------------------------------------------
(* The record types.  Each table lists, in declaration order, one field of *)
(* every combination of query tag form, kind and validation rule that the  *)
(* struct declares; the fields left out repeat one of these combinations   *)
(* under another wire name.  dom is the set of values the model gives the  *)
(* field.                                                                  *)

NumberStrings == {"1", "5", "7", "8", "9"}
EmailStrings == {"u@x.io"}
\* strings holding a lower-case letter, an upper-case letter and a symbol
PasswordStrings == {"Secret.Pw9", "aB.", "Secret.Pw9Secret.Pw9"}

\* what core.Criteria.URLValues hands back for the embedded criteria: an error
\* and no parameters, or a parameter set
CoreCriteriaOutcomes ==
    { [err |-> TRUE,  vals |-> EmptyValues],
      [err |-> FALSE, vals |-> EmptyValues],
      [err |-> FALSE, vals |-> ("customer-id" :> <<"7", "8">>)],
      [err |-> FALSE, vals |-> ("reseller-id" :> <<"4">>) @@ ("customer-id" :> <<"7">>)] }

ContactDetail ==
    << Field("ID", Dash, "string", "string", <<>>, {"9"}),
       Field("Type", Tag("type", "type", ""), "string", "Type",
             <<Rule("required", 0)>>, {"", "Contact"}),
       Field("CustomerID", Tag("customer-id", "customer-id", ""), "string", "string",
             <<Rule("required", 0), Rule("number", 0)>>, {"", "1", "x1"}),
       Field("Name", Tag("name", "name", ""), "string", "string",
             <<Rule("required", 0), Rule("max", 255)>>, {"", "n"}),
       Field("AddressLine2", Tag("address-line-2,optional", "address-line-2", "optional"),
             "string", "string", <<Rule("-", 0)>>, {"", "l2"}),
       Field("FaxCountryCode", Tag("fax-cc,optional", "fax-cc", "optional"),
             "string", "string", <<Rule("omitempty", 0), Rule("min", 1), Rule("max", 3)>>,
             {"", "62", "0062"}),
       Field("ActionCompleted", Dash, "uint", "core.JSONUint16", <<>>, {0, 1}) >>

ContactCriteria ==
    << Field("CustomerID", Tag("customer-id", "customer-id", ""), "string", "string",
             <<Rule("required", 0), Rule("number", 0)>>, {"", "1", "x1"}),
       Field("ContactIDs", Tag("contact-id,optional", "contact-id", "optional"),
             "slice", "string",
             <<Rule("omitempty", 0), Rule("dive", 0), Rule("number", 0)>>,
             SeqsUpTo({"7", "8"}, MaxSlice) \cup {<<"x1">>}),
       Field("Statuses", Tag("status,optional", "status", "optional"),
             "slice", "core.EntityStatus", <<Rule("omitempty", 0)>>,
             SeqsUpTo({"Active"}, MaxSlice)),
       Field("Name", Tag("name,optional", "name", "optional"), "string", "string",
             <<Rule("omitempty", 0)>>, {"", "n"}),
       Field("Type", Tag("type,optional", "type", "optional"), "string", "Type",
             <<Rule("omitempty", 0)>>, {"", "Contact"}),
       Field("IsIncludeInvalid", Tag("include-invalid,optional", "include-invalid", "optional"),
             "bool", "bool", <<Rule("omitempty", 0)>>, {FALSE, TRUE}) >>

CustomerDetail ==
    << Field("ID", Dash, "string", "string", <<Rule("-", 0)>>, {"", "9"}),
       Field("Username", Tag("username", "username", ""), "string", "string",
             <<Rule("omitempty", 0), Rule("email", 0)>>, {"", "u@x.io", "u-x"}),
       Field("Name", Tag("name", "name", ""), "string", "string",
             <<Rule("omitempty", 0)>>, {"", "n"}),
       Field("AltPhone", Tag("alt-phone,omitempty", "alt-phone", "omitempty"),
             "string", "string", <<Rule("omitempty", 0), Rule("number", 0)>>,
             {"", "5", "x1"}),
       Field("WebsiteCount", Dash, "uint", "core.JSONUint16", <<Rule("-", 0)>>, {0, 1}) >>

CustomerCriteria ==
    << Field("Criteria", NoTag, "struct", "core.Criteria", <<>>, CoreCriteriaOutcomes),
       Field("Username", Tag("username,omitempty", "username", "omitempty"),
             "string", "string", <<Rule("omitempty", 0)>>, {"", "u"}),
       Field("Status", Tag("status,omitempty", "status", "omitempty"),
             "string", "core.EntityStatus", <<Rule("omitempty", 0)>>, {"", "Active"}),
       Field("ReceiptLowest", Tag("total-receipt-start,omitempty", "total-receipt-start", "omitempty"),
             "float", "float64", <<Rule("omitempty", 0)>>, {0, 1500}) >>

SignUpForm ==
    << Field("Username", Tag("username", "username", ""), "string", "string",
             <<Rule("required", 0), Rule("email", 0)>>, {"", "u@x.io", "u-x"}),
       Field("Password", Tag("passwd", "passwd", ""), "string", "string",
             <<Rule("required", 0), Rule("min", 9), Rule("max", 16), Rule("rcpassword", 0)>>,
             {"", "Secret.Pw9", "secretpw99", "S.p"}),
       Field("AddressLine2", Tag("address-line-2,omitempty", "address-line-2", "omitempty"),
             "string", "string", <<Rule("omitempty", 0)>>, {"", "l2"}),
       Field("SmsConcent", Tag("sms-consent,omitempty", "sms-consent", "omitempty"),
             "bool", "bool", <<Rule("omitempty", 0)>>, {FALSE, TRUE}),
       Field("CustomerID", NoTag, "string", "string", <<Rule("-", 0)>>, {"", "9"}) >>

\* the two slice arguments of domain.CheckAvailability, as a record
CheckAvailabilityArgs ==
    << Field("domainsWithoutTLD", Tag("domain-name", "domain-name", ""), "slice", "string",
             <<>>, SeqsUpTo({"d", "e"}, MaxSlice)),
       Field("tlds", Tag("tlds", "tlds", ""), "slice", "string",
             <<>>, SeqsUpTo({"com"}, MaxSlice)) >>

RecordEncoders ==
    {"contact.Detail", "contact.Criteria", "customer.Detail", "customer.Criteria",
     "customer.SignUpForm"}
GoroutineEncoders == RecordEncoders \ {"contact.Detail"}
Encoders == RecordEncoders \cup {"domain.CheckAvailability"}

Schema(o) ==
    CASE o = "contact.Detail"           -> ContactDetail
      [] o = "contact.Criteria"         -> ContactCriteria
      [] o = "customer.Detail"          -> CustomerDetail
      [] o = "customer.Criteria"        -> CustomerCriteria
      [] o = "customer.SignUpForm"      -> SignUpForm
      [] o = "domain.CheckAvailability" -> CheckAvailabilityArgs
      [] o = "mergePrevious"            -> CustomerDetail

FieldNames(o) == {Schema(o)[k].name : k \in DOMAIN Schema(o)}
FieldOf(o, name) == CHOOSE f \in Range(Schema(o)) : f.name = name
IndexOf(o, name) == CHOOSE k \in DOMAIN Schema(o) : Schema(o)[k].name = name

RECURSIVE RecordsFrom(_, _)
RecordsFrom(sch, k) ==
    IF k > Len(sch) THEN {<<>>}
    ELSE {(sch[k].name :> v) @@ r : v \in sch[k].dom, r \in RecordsFrom(sch, k + 1)}
Records(o) == RecordsFrom(Schema(o), 1)

-----------------------------------------------------------------------------
(* url.Values.                                                             *)

\* url.Values.Add
Add(m, key, val) ==
    IF key \in DOMAIN m THEN [m EXCEPT ![key] = Append(@, val)]
    ELSE (key :> <<val>>) @@ m
\* the values under a key (nil when the key is absent)
ValuesAt(m, key) == IF key \in DOMAIN m THEN m[key] ELSE <<>>

-----------------------------------------------------------------------------
(* The Validator: validator.New().Struct(c) over the validate tags.        *)

\* matchPasswordWithPattern(password, false)
matchPasswordWithPattern(password) == password \in PasswordStrings

RECURSIVE ValidValue(_, _, _, _)
ValidValue(rules, k, kind, v) ==
    IF k > Len(rules) THEN TRUE
    ELSE LET r == rules[k] IN
         CASE r.r = "-"          -> TRUE
           [] r.r = "omitempty"  -> IsZero(kind, v) \/ ValidValue(rules, k + 1, kind, v)
           [] r.r = "required"   -> ~IsZero(kind, v) /\ ValidValue(rules, k + 1, kind, v)
           [] r.r = "number"     -> v \in NumberStrings /\ ValidValue(rules, k + 1, kind, v)
           [] r.r = "email"      -> v \in EmailStrings /\ ValidValue(rules, k + 1, kind, v)
           [] r.r = "min"        -> Len(v) >= r.n /\ ValidValue(rules, k + 1, kind, v)
           [] r.r = "max"        -> Len(v) <= r.n /\ ValidValue(rules, k + 1, kind, v)
           [] r.r = "rcpassword" -> matchPasswordWithPattern(v) /\ ValidValue(rules, k + 1, kind, v)
           [] r.r = "dive"       -> \A e \in DOMAIN v : ValidValue(rules, k + 1, "string", v[e])

\* the fields validator.Struct reports
InvalidFields(o, r) ==
    {f.name : f \in {g \in Range(Schema(o)) : ~ValidValue(g.rules, 1, g.kind, r[g.name])}}

NoError == [kind |-> "nil", fields |-> {}]
ValidationError(names) == [kind |-> "validation", fields |-> names]
\* errors.New(strings.ToLower(name) + " must not empty")
MissingError(name) == [kind |-> "must not empty", fields |-> {name}]

\* a returned (url.Values, error); isNil tells a nil map or pointer from an empty map
Returned(vals, isNil, err) == [tag |-> "returned", vals |-> vals, isNil |-> isNil, err |-> err]

-----------------------------------------------------------------------------
(* Goroutines.  A worker is named by its path: <<idx>> is the goroutine of *)
(* field idx, <<idx, n>> the n-th goroutine it starts, and so on.  The     *)
(* WaitGroup a goroutine declares carries the goroutine's own id; the      *)
(* caller's is <<>>.                                                       *)

Main == <<>>
Parent(w) == SubSeq(w, 1, Len(w) - 1)
Children(w) == {c \in DOMAIN workers : Len(c) = Len(w) + 1 /\ Parent(c) = w}

Worker(wpc, key, val, panics) == [pc |-> wpc, key |-> key, val |-> val, j |-> 1, panics |-> panics]
Running == Worker("run", "", "", FALSE)
\* a worker about to do  rwMutex.Lock(); urlValues.Add(key, val); rwMutex.Unlock()
Wants(key, val) == Worker("want", key, val, FALSE)
\* the same worker when evaluating the argument of Add panics
WantsAndPanics(key) == Worker("want", key, "", TRUE)

Alive == pc \notin {"done", "panic"}

\* wg.Add(1); go func(...) {...}(...)
Go(w, state) ==
    /\ workers' = (w :> state) @@ workers
    /\ wg' = [wg EXCEPT ![Parent(w)] = @ + 1]

\* the worker returns: its deferred wg.Done() runs
Finish(w) ==
    /\ workers' = [workers EXCEPT ![w].pc = "done"]
    /\ wg' = [wg EXCEPT ![Parent(w)] = @ - 1]

encoderFrame == <<prev, orig, data, hist, got>>

\* rwMutex.Lock()
Lock(w) ==
    /\ Alive
    /\ workers[w].pc = "want"
    /\ rwMutex = Free
    /\ rwMutex' = w
    /\ workers' = [workers EXCEPT ![w].pc = "held"]
    /\ UNCHANGED <<op, rec, pc, i, wg, urlValues, ret, encoderFrame>>

\* urlValues.Add(key, val); rwMutex.Unlock(); and the deferred wg.Done()
AddUnlock(w) ==
    /\ Alive
    /\ workers[w].pc = "held"
    /\ ~workers[w].panics
    /\ urlValues' = Add(urlValues, workers[w].key, workers[w].val)
    /\ rwMutex' = Free
    /\ Finish(w)
    /\ UNCHANGED <<op, rec, pc, i, ret, encoderFrame>>

\* vField.Interface().(string) on a value whose type is not string: the type
\* assertion panics, and a panic in any goroutine ends the program
AssertionPanic(w) ==
    /\ Alive
    /\ workers[w].pc = "held"
    /\ workers[w].panics
    /\ pc' = "panic"
    /\ UNCHANGED <<op, rec, i, workers, wg, rwMutex, urlValues, ret, encoderFrame>>

-----------------------------------------------------------------------------
(* Steps the encoders share.                                               *)

\* the validation error dropped instead of returned
ValidateAndCarryOn(o, nilOnError) ==
    /\ op = o
    /\ pc = "validate"
    /\ pc' = "loop"
    /\ UNCHANGED <<op, rec, i, workers, wg, rwMutex, urlValues, ret, encoderFrame>>

\* if err := validator.New().Struct(c); err != nil { return <nil or empty>, err }
ValidateOrReturn(o, nilOnError) ==
    /\ op = o
    /\ pc = "validate"
    /\ LET bad == InvalidFields(o, rec) IN
       IF bad # {}
       THEN /\ ret' = Returned(EmptyValues, nilOnError, ValidationError(bad))
            /\ pc' = "done"
       ELSE /\ pc' = "loop"
            /\ ret' = ret
    /\ UNCHANGED <<op, rec, i, workers, wg, rwMutex, urlValues, encoderFrame>>

\* for i := 0; i < NumField(); i++ { wg.Add(1); go func(idx int) {...}(i) }
SpawnField(o) ==
    /\ op = o
    /\ pc = "loop"
    /\ i <= Len(Schema(o))
    /\ Go(<<i>>, Running)
    /\ i' = i + 1
    /\ UNCHANGED <<op, rec, pc, rwMutex, urlValues, ret, encoderFrame>>

\* the return without the wg.Wait() before it
ReturnWithoutWait(o) ==
    /\ op = o
    /\ pc = "loop"
    /\ i > Len(Schema(o))
    /\ ret' = Returned(urlValues, FALSE, NoError)
    /\ pc' = "done"
    /\ UNCHANGED <<op, rec, i, workers, wg, rwMutex, urlValues, encoderFrame>>

\* wg.Wait(); return urlValues, nil
WaitAndReturn(o) ==
    /\ op = o
    /\ pc = "loop"
    /\ i > Len(Schema(o))
    /\ wg[Main] = 0
    /\ ret' = Returned(urlValues, FALSE, NoError)
    /\ pc' = "done"
    /\ UNCHANGED <<op, rec, i, workers, wg, rwMutex, urlValues, encoderFrame>>

\* a field goroutine that is about to run its body
AtBody(o, w) ==
    /\ Alive
    /\ op = o
    /\ Len(w) = 1
    /\ workers[w].pc = "run"

-----------------------------------------------------------------------------
(* contact.Detail.URLValues: a sequential walk.                            *)

ContactDetailValidate == ValidateOrReturn("contact.Detail", TRUE)

ContactDetailField ==
    /\ op = "contact.Detail"
    /\ pc = "loop"
    /\ i <= Len(ContactDetail)
    /\ LET tFieldCurrent == ContactDetail[i]
           tagFieldCurrent == tFieldCurrent.tag
           vFieldCurrent == rec[tFieldCurrent.name]
       IN  IF tagFieldCurrent.raw = "" \/ tagFieldCurrent.raw = "-" \/ tFieldCurrent.kind # "string"
           THEN i' = i + 1 /\ UNCHANGED <<pc, urlValues, ret>>
           ELSE IF IsZero(tFieldCurrent.kind, vFieldCurrent)
           THEN IF ~HasSuffix(tagFieldCurrent, "optional")
                THEN /\ ret' = Returned(EmptyValues, TRUE, MissingError(tFieldCurrent.name))
                     /\ pc' = "done"
                     /\ UNCHANGED <<i, urlValues>>
                ELSE i' = i + 1 /\ UNCHANGED <<pc, urlValues, ret>>
           ELSE /\ urlValues' = Add(urlValues, TrimSuffix(tagFieldCurrent, "optional"), vFieldCurrent)
                /\ i' = i + 1
                /\ UNCHANGED <<pc, ret>>
    /\ UNCHANGED <<op, rec, workers, wg, rwMutex, encoderFrame>>

ContactDetailReturn ==
    /\ op = "contact.Detail"
    /\ pc = "loop"
    /\ i > Len(ContactDetail)
    /\ ret' = Returned(urlValues, FALSE, NoError)
    /\ pc' = "done"
    /\ UNCHANGED <<op, rec, i, workers, wg, rwMutex, urlValues, encoderFrame>>

-----------------------------------------------------------------------------
(* contact.Criteria.URLValues: a goroutine per field, and one per element  *)
(* of a slice field.                                                       *)

ContactCriteriaValidate == ValidateOrReturn("contact.Criteria", TRUE)
ContactCriteriaSpawn == SpawnField("contact.Criteria")
ContactCriteriaReturn == WaitAndReturn("contact.Criteria")

\* the loop variable read by the goroutine after the loop has moved on
ElementValueOfLastIndex(vField, i2) == vField[Len(vField)]

\* the queryValue of element i2 of a slice field
ElementValue(vField, i2) == vField[i2]

ContactCriteriaWorker(w) ==
    /\ AtBody("contact.Criteria", w)
    /\ LET f == ContactCriteria[w[1]]
           fieldTag == f.tag
           vField == rec[f.name]
           key == TrimSuffix(fieldTag, "optional")
       IN  IF (fieldTag.raw = "" \/ fieldTag.raw = "-")
              \/ (IsZero(f.kind, vField) /\ HasSuffix(fieldTag, "optional"))
           THEN Finish(w)
           ELSE CASE f.kind = "string" ->
                       /\ workers' = [workers EXCEPT ![w] =
                              IF f.gotype = "string" THEN Wants(key, vField)
                              ELSE WantsAndPanics(key)]
                       /\ wg' = wg
                  [] f.kind = "bool" ->
                       /\ workers' = [workers EXCEPT ![w] = Wants(key, FormatBool(vField))]
                       /\ wg' = wg
                  [] f.kind = "slice" ->
                       /\ workers' = [workers EXCEPT ![w].pc = "spawn"]
                       /\ wg' = (w :> 0) @@ wg
                  [] OTHER -> Finish(w)
    /\ UNCHANGED <<op, rec, pc, i, rwMutex, urlValues, ret, encoderFrame>>

\* for j := 0; j < vField.Len(); j++ { wg2.Add(1); go func(i2 int) {...}(j) }
ContactCriteriaElement(w) ==
    /\ Alive
    /\ op = "contact.Criteria"
    /\ workers[w].pc = "spawn"
    /\ LET f == ContactCriteria[w[1]]
           vField == rec[f.name]
           j == workers[w].j
           key == TrimSuffix(f.tag, "optional")
       IN  /\ j <= Len(vField)
           /\ workers' = (Append(w, j) :> Wants(key, ElementValue(vField, j)))
                            @@ [workers EXCEPT ![w].j = j + 1]
           /\ wg' = [wg EXCEPT ![w] = @ + 1]
    /\ UNCHANGED <<op, rec, pc, i, rwMutex, urlValues, ret, encoderFrame>>

\* wg2.Wait() and the return of the field goroutine
ContactCriteriaSliceWait(w) ==
    /\ Alive
    /\ op = "contact.Criteria"
    /\ workers[w].pc = "spawn"
    /\ workers[w].j > Len(rec[ContactCriteria[w[1]].name])
    /\ wg[w] = 0
    /\ Finish(w)
    /\ UNCHANGED <<op, rec, pc, i, rwMutex, urlValues, ret, encoderFrame>>

-----------------------------------------------------------------------------
(* customer.Detail.URLValues: a goroutine per field.                       *)

CustomerDetailValidate == ValidateOrReturn("customer.Detail", FALSE)
CustomerDetailSpawn == SpawnField("customer.Detail")
CustomerDetailReturn == WaitAndReturn("customer.Detail")

CustomerDetailWorker(w) ==
    /\ AtBody("customer.Detail", w)
    /\ LET f == CustomerDetail[w[1]]
           fieldTag == f.tag
           vField == rec[f.name]
           queryField == TrimSuffix(fieldTag, "omitempty")
       IN  IF fieldTag.raw # "" /\ fieldTag.raw # "-" /\ f.kind = "string"
           THEN IF HasSuffix(fieldTag, "omitempty") /\ IsZero(f.kind, vField)
                THEN Finish(w)
                ELSE /\ workers' = [workers EXCEPT ![w] =
                            IF f.gotype = "string" THEN Wants(queryField, vField)
                            ELSE WantsAndPanics(queryField)]
                     /\ wg' = wg
           ELSE Finish(w)
    /\ UNCHANGED <<op, rec, pc, i, rwMutex, urlValues, ret, encoderFrame>>

-----------------------------------------------------------------------------
(* customer.Criteria.URLValues: a goroutine per field; the goroutine of    *)
(* the embedded core.Criteria starts one goroutine per key of the embedded *)
(* criteria's parameters, and each of those one per value.                 *)

CustomerCriteriaValidate == ValidateOrReturn("customer.Criteria", FALSE)
CustomerCriteriaSpawn == SpawnField("customer.Criteria")
CustomerCriteriaReturn == WaitAndReturn("customer.Criteria")

\* what the field goroutine does with the error of core.Criteria.URLValues
EmbeddedFailed(coreCiteriaData) == coreCiteriaData.err

CustomerCriteriaWorker(w) ==
    /\ AtBody("customer.Criteria", w)
    /\ LET tField == CustomerCriteria[w[1]]
           fieldTag == tField.tag
           vField == rec[tField.name]
           queryField == TrimSuffix(fieldTag, "omitempty")
       IN  IF fieldTag.raw = ""
           THEN IF tField.kind = "struct" /\ tField.gotype = "core.Criteria"
                THEN IF EmbeddedFailed(vField)
                     THEN Finish(w)
                     ELSE /\ workers' = [workers EXCEPT ![w].pc = "keys"]
                          /\ wg' = (w :> 0) @@ wg
                ELSE Finish(w)
           ELSE IF HasSuffix(fieldTag, "omitempty") /\ IsZero(tField.kind, vField)
                THEN Finish(w)
                ELSE CASE tField.kind = "float" ->
                            /\ workers' = [workers EXCEPT ![w] = Wants(queryField, FormatFloat(vField))]
                            /\ wg' = wg
                       [] tField.kind = "string" ->
                            /\ workers' = [workers EXCEPT ![w] = Wants(queryField, vField)]
                            /\ wg' = wg
                       [] OTHER -> Finish(w)
    /\ UNCHANGED <<op, rec, pc, i, rwMutex, urlValues, ret, encoderFrame>>

\* for k, v := range coreCiteriaData { wgCriteria.Add(1); go func(key, val) {...}(k, v) }
\* (a map is ranged over in any order)
CustomerCriteriaKey(w) ==
    /\ Alive
    /\ op = "customer.Criteria"
    /\ workers[w].pc = "keys"
    /\ LET coreCiteriaData == rec[CustomerCriteria[w[1]].name].vals
           started == {workers[c].key : c \in Children(w)}
       IN  \E k \in DOMAIN coreCiteriaData \ started :
              LET c == Append(w, Cardinality(started) + 1) IN
              /\ workers' = (c :> Worker("values", k, "", FALSE)) @@ workers
              /\ wg' = (c :> 0) @@ [wg EXCEPT ![w] = @ + 1]
    /\ UNCHANGED <<op, rec, pc, i, rwMutex, urlValues, ret, encoderFrame>>

\* wgCriteria.Wait() and the return of the field goroutine
CustomerCriteriaKeysWait(w) ==
    /\ Alive
    /\ op = "customer.Criteria"
    /\ workers[w].pc = "keys"
    /\ {workers[c].key : c \in Children(w)} = DOMAIN rec[CustomerCriteria[w[1]].name].vals
    /\ wg[w] = 0
    /\ Finish(w)
    /\ UNCHANGED <<op, rec, pc, i, rwMutex, urlValues, ret, encoderFrame>>

\* for _, v2 := range val { wgSlc.Add(1); go func(key2, strVal string) {...}(key, v2) }
CustomerCriteriaValue(c) ==
    /\ Alive
    /\ op = "customer.Criteria"
    /\ workers[c].pc = "values"
    /\ LET val == rec[CustomerCriteria[c[1]].name].vals[workers[c].key]
           j == workers[c].j
       IN  /\ j <= Len(val)
           /\ workers' = (Append(c, j) :> Wants(workers[c].key, val[j]))
                            @@ [workers EXCEPT ![c].j = j + 1]
           /\ wg' = [wg EXCEPT ![c] = @ + 1]
    /\ UNCHANGED <<op, rec, pc, i, rwMutex, urlValues, ret, encoderFrame>>

\* wgSlc.Wait() and the return of the per-key goroutine
CustomerCriteriaValuesWait(c) ==
    /\ Alive
    /\ op = "customer.Criteria"
    /\ workers[c].pc = "values"
    /\ workers[c].j > Len(rec[CustomerCriteria[c[1]].name].vals[workers[c].key])
    /\ wg[c] = 0
    /\ Finish(c)
    /\ UNCHANGED <<op, rec, pc, i, rwMutex, urlValues, ret, encoderFrame>>

-----------------------------------------------------------------------------
(* customer.SignUpForm.URLValues: a goroutine per field.  Registering the  *)
(* rcpassword rule cannot fail (the tag is non-empty and the function is   *)
(* not nil), so the first return is never taken.                           *)

SignUpFormValidate == ValidateOrReturn("customer.SignUpForm", FALSE)
SignUpFormSpawn == SpawnField("customer.SignUpForm")
SignUpFormReturn == WaitAndReturn("customer.SignUpForm")

SignUpFormWorker(w) ==
    /\ AtBody("customer.SignUpForm", w)
    /\ LET tField == SignUpForm[w[1]]
           fieldTag == tField.tag
           vField == rec[tField.name]
           queryField == TrimSuffix(fieldTag, "omitempty")
       IN  IF fieldTag.raw # ""
           THEN IF HasSuffix(fieldTag, "omitempty") /\ IsZero(tField.kind, vField)
                THEN Finish(w)
                ELSE CASE tField.kind = "string" ->
                            /\ workers' = [workers EXCEPT ![w] = Wants(queryField, vField)]
                            /\ wg' = wg
                       [] tField.kind = "bool" ->
                            /\ workers' = [workers EXCEPT ![w] = Wants(queryField, FormatBool(vField))]
                            /\ wg' = wg
                       [] OTHER -> Finish(w)
           ELSE Finish(w)
    /\ UNCHANGED <<op, rec, pc, i, rwMutex, urlValues, ret, encoderFrame>>

-----------------------------------------------------------------------------
(* domain.CheckAvailability (the goroutine-based version): the parameters  *)
(* are built by one goroutine per domain name and one per TLD.             *)

\* if len(domainsWithoutTLD) <= 0 || len(tlds) <= 0 { return ..., errors.New(...) }
CheckAvailabilityGuard ==
    /\ op = "domain.CheckAvailability"
    /\ pc = "validate"
    /\ IF Len(rec["domainsWithoutTLD"]) <= 0 \/ Len(rec["tlds"]) <= 0
       THEN /\ ret' = Returned(EmptyValues, FALSE,
                               [kind |-> "domainnames and tlds must not empty", fields |-> {}])
            /\ pc' = "done"
       ELSE /\ pc' = "loop"
            /\ ret' = ret
    /\ UNCHANGED <<op, rec, i, workers, wg, rwMutex, urlValues, encoderFrame>>

\* for _, v := range domainsWithoutTLD { wg.Add(1); go func(value string) {...}(v) }
CheckAvailabilityDomain ==
    /\ op = "domain.CheckAvailability"
    /\ pc = "loop"
    /\ i <= Len(rec["domainsWithoutTLD"])
    /\ Go(<<i>>, Wants("domain-name", rec["domainsWithoutTLD"][i]))
    /\ i' = i + 1
    /\ UNCHANGED <<op, rec, pc, rwMutex, urlValues, ret, encoderFrame>>

CheckAvailabilityNextLoop ==
    /\ op = "domain.CheckAvailability"
    /\ pc = "loop"
    /\ i > Len(rec["domainsWithoutTLD"])
    /\ pc' = "loop2"
    /\ i' = 1
    /\ UNCHANGED <<op, rec, workers, wg, rwMutex, urlValues, ret, encoderFrame>>

\* for _, v := range tlds { wg.Add(1); go func(value string) {...}(v) }
CheckAvailabilityTLD ==
    /\ op = "domain.CheckAvailability"
    /\ pc = "loop2"
    /\ i <= Len(rec["tlds"])
    /\ Go(<<Len(rec["domainsWithoutTLD"]) + i>>, Wants("tlds", rec["tlds"][i]))
    /\ i' = i + 1
    /\ UNCHANGED <<op, rec, pc, rwMutex, urlValues, ret, encoderFrame>>

\* wg.Wait(); the parameters are complete and handed to CallApi
CheckAvailabilityWait ==
    /\ op = "domain.CheckAvailability"
    /\ pc = "loop2"
    /\ i > Len(rec["tlds"])
    /\ wg[Main] = 0
    /\ ret' = Returned(urlValues, FALSE, NoError)
    /\ pc' = "done"
    /\ UNCHANGED <<op, rec, i, workers, wg, rwMutex, urlValues, encoderFrame>>

-----------------------------------------------------------------------------
(* The encoders' specification: one call of one encoder on one record.     *)

\* the non-zero scalars, slice elements and embedded parameters a record carries
RECURSIVE Load(_, _, _)
Load(o, r, k) ==
    IF k > Len(Schema(o)) THEN 0
    ELSE LET f == Schema(o)[k]
             v == r[f.name]
             here == CASE f.kind = "slice"  -> Len(v)
                       [] f.kind = "struct" -> Cardinality(DOMAIN v.vals)
                       [] OTHER             -> IF IsZero(f.kind, v) THEN 0 ELSE 1
         IN  here + Load(o, r, k + 1)

Inputs(o) ==
    IF o \in GoroutineEncoders
    THEN {r \in Records(o) : InvalidFields(o, r) # {} \/ Load(o, r, 1) <= MaxLoad}
    ELSE Records(o)

Init ==
    /\ op \in Encoders
    /\ rec \in Inputs(op)
    /\ pc = "validate"
    /\ i = 1
    /\ workers = <<>>
    /\ wg = (Main :> 0)
    /\ rwMutex = Free
    /\ urlValues = EmptyValues
    /\ ret = NotReturned
    /\ prev = <<>>
    /\ orig = <<>>
    /\ data = <<>>
    /\ hist = <<>>
    /\ got = NotReturned

Next ==
    \/ ContactDetailValidate \/ ContactDetailField \/ ContactDetailReturn
    \/ ContactCriteriaValidate \/ ContactCriteriaSpawn \/ ContactCriteriaReturn
    \/ CustomerDetailValidate \/ CustomerDetailSpawn \/ CustomerDetailReturn
    \/ CustomerCriteriaValidate \/ CustomerCriteriaSpawn \/ CustomerCriteriaReturn
    \/ SignUpFormValidate \/ SignUpFormSpawn \/ SignUpFormReturn
    \/ CheckAvailabilityGuard \/ CheckAvailabilityDomain \/ CheckAvailabilityNextLoop
    \/ CheckAvailabilityTLD \/ CheckAvailabilityWait
    \/ \E w \in DOMAIN workers : Lock(w)
    \/ \E w \in DOMAIN workers : AddUnlock(w)
    \/ \E w \in DOMAIN workers : AssertionPanic(w)
    \/ \E w \in DOMAIN workers : ContactCriteriaWorker(w)
    \/ \E w \in DOMAIN workers : ContactCriteriaElement(w)
    \/ \E w \in DOMAIN workers : ContactCriteriaSliceWait(w)
    \/ \E w \in DOMAIN workers : CustomerDetailWorker(w)
    \/ \E w \in DOMAIN workers : CustomerCriteriaWorker(w)
    \/ \E w \in DOMAIN workers : CustomerCriteriaKey(w)
    \/ \E w \in DOMAIN workers : CustomerCriteriaKeysWait(w)
    \/ \E w \in DOMAIN workers : CustomerCriteriaValue(w)
    \/ \E w \in DOMAIN workers : CustomerCriteriaValuesWait(w)
    \/ \E w \in DOMAIN workers : SignUpFormWorker(w)

Spec == Init /\ [][Next]_vars

-----------------------------------------------------------------------------
(* Properties of the encoders.                                             *)

Tagged(f) == f.tag.raw # "" /\ f.tag.raw # "-"
Optional(f) == f.tag.opt \in {"optional", "omitempty"}
Fields(o) == Range(Schema(o))
ReturnedOk == pc = "done" /\ ret.err.kind = "nil"

\* C1: when the Validator rejects the record, a record encoder returns a
\* non-nil error with a nil or empty parameter set, no goroutine is started
\* and nothing is written into a parameter set; nothing is written before
\* the validation has passed either.
C1_ValidationBeforeEncoding ==
    op \in RecordEncoders =>
        /\ pc = "validate" => (DOMAIN urlValues = {} /\ DOMAIN workers = {})
        /\ InvalidFields(op, rec) # {} =>
              /\ DOMAIN urlValues = {}
              /\ DOMAIN workers = {}
              /\ pc \in {"validate", "done"}
              /\ pc = "done" =>
                    /\ ret.err = ValidationError(InvalidFields(op, rec))
                    /\ DOMAIN ret.vals = {}

C1_Witness ==
    /\ op = "customer.SignUpForm"
    /\ pc = "done"
    /\ rec["Password"] = "secretpw99"
    /\ ret.err.kind = "validation"
    /\ "Password" \in ret.err.fields

\* C2: an encode of a record in which a tagged, non-optional field is zero
\* fails: it returns a non-nil error, which names the field (or, when the
\* Validator rejected the record, the fields the Validator rejected); the
\* field is never emitted with an empty value together with a nil error.
C2_RequiredZeroFieldFails ==
    (pc = "done" /\ op \in RecordEncoders) =>
        \A f \in Fields(op) :
            (Tagged(f) /\ ~Optional(f) /\ IsZero(f.kind, rec[f.name])) =>
                /\ ret.err.kind # "nil"
                /\ f.name \in ret.err.fields \/ ret.err.kind = "validation"

C4_OneValuePerElement ==
    (ReturnedOk /\ op \in {"contact.Criteria", "domain.CheckAvailability"}) =>
        \A f \in {g \in Fields(op) : g.kind = "slice"} :
            BagOf(ValuesAt(ret.vals, f.tag.name)) = BagOf(rec[f.name])

C4_Witness ==
    /\ op = "contact.Criteria"
    /\ ReturnedOk
    /\ rec["ContactIDs"] = <<"7", "8">>
    /\ ret.vals["contact-id"] = <<"8", "7">>

\* C5: when encoding the embedded core.Criteria fails, customer.Criteria's
\* encoder returns a non-nil error and no parameters.
C5_EmbeddedFailureFailsEncode ==
    (pc = "done" /\ op = "customer.Criteria" /\ rec["Criteria"].err) =>
        (ret.err.kind # "nil" /\ DOMAIN ret.vals = {})

\* The parameters a sequential walk over the fields, in declaration order,
\* adds for one field: a sequence of <<key, value>> pairs.
PairsOfField(o, f, v) ==
    LET one(val) == <<(<<f.tag.name, val>>)>>
        each == [j \in DOMAIN v |-> <<f.tag.name, v[j]>>]
    IN  CASE f.kind = "struct" /\ o = "customer.Criteria" ->
               IF v.err THEN <<>>
               ELSE LET keys == DOMAIN v.vals
                        first == IF "customer-id" \in keys THEN <<"customer-id">> ELSE <<>>
                        rest == IF "reseller-id" \in keys THEN <<"reseller-id">> ELSE <<>>
                        ks == first \o rest
                        flat[n \in 0..Len(ks)] ==
                            IF n = 0 THEN <<>>
                            ELSE flat[n - 1] \o [j \in DOMAIN v.vals[ks[n]] |->
                                                    <<ks[n], v.vals[ks[n]][j]>>]
                    IN  flat[Len(ks)]
          [] ~Tagged(f) -> <<>>
          [] Optional(f) /\ IsZero(f.kind, v) -> <<>>
          [] f.kind = "string" -> one(v)
          [] f.kind = "bool" /\ o # "customer.Detail" -> one(FormatBool(v))
          [] f.kind = "float" /\ o = "customer.Criteria" -> one(FormatFloat(v))
          [] f.kind = "slice" /\ o \in {"contact.Criteria", "domain.CheckAvailability"} -> each
          [] OTHER -> <<>>

RECURSIVE PairsFrom(_, _, _)
PairsFrom(o, r, k) ==
    IF k > Len(Schema(o)) THEN <<>>
    ELSE PairsOfField(o, Schema(o)[k], r[Schema(o)[k].name]) \o PairsFrom(o, r, k + 1)

RECURSIVE Collect(_, _)
Collect(pairs, m) ==
    IF pairs = <<>> THEN m
    ELSE Collect(Tail(pairs), Add(m, Head(pairs)[1], Head(pairs)[2]))

SequentialWalk(o, r) == Collect(PairsFrom(o, r, 1), EmptyValues)

ConcurrentEncoders == GoroutineEncoders \cup {"domain.CheckAvailability"}

\* C6 as claimed: the parameter set a goroutine-based encoder returns is, in
\* every interleaving, the one a sequential walk in declaration order
\* builds, with the same sequence of values under every key.
C6_SameSequenceAsSequentialWalk ==
    (ReturnedOk /\ op \in ConcurrentEncoders) => ret.vals = SequentialWalk(op, rec)

\* C6 as amended: in every interleaving the returned parameter set has the
\* keys of the sequential walk and, under every key, the same multiset of
\* values; the order of the values under a key depends on the interleaving.
C6_SameMultisetAsSequentialWalk ==
    (ReturnedOk /\ op \in ConcurrentEncoders) =>
        LET walk == SequentialWalk(op, rec) IN
        /\ DOMAIN ret.vals = DOMAIN walk
        /\ \A k \in DOMAIN walk : BagOf(ret.vals[k]) = BagOf(walk[k])

C6_Witness ==
    /\ op = "domain.CheckAvailability"
    /\ ReturnedOk
    /\ rec["domainsWithoutTLD"] = <<"d", "e">>
    /\ ret.vals["domain-name"] = <<"e", "d">>
    /\ SequentialWalk(op, rec)["domain-name"] = <<"d", "e">>

-----------------------------------------------------------------------------
(* core.entityAttributes: the attribute list.  One list, created by        *)
(* NewEntityAttributes, on which the caller makes one call after another.  *)

AttrKeys == {"a", "b"}
AttrVals == {"1", "2"}
\* the parameter sets CopyTo is handed in contact.Add and contact.AddExtraDetails
Destinations == {EmptyValues, ("contact-id" :> <<"1">>)}

\* the whole map emptied
DeleteAll(m, key) == <<>>
\* delete(e.data, key)
Delete(m, key) == [k \in DOMAIN m \ {key} |-> m[k]]
\* e.data[key] = val
Store(m, key, val) == (key :> val) @@ [k \in DOMAIN m \ {key} |-> m[k]]
\* e.data[key], the zero value when the key is absent
Lookup(m, key) == IF key \in DOMAIN m THEN m[key] ELSE ""

\* the index a pair goroutine reads from the shared variable, not its argument
IndexShared(w) == i
\* the argument i of go func(i int, k, v string)
IndexArg(w) == w[1]

Idle == pc = "idle"
attrFrame == <<rec, prev, orig>>

\* func (e *entityAttributes) Add(key, val string)
AttrAdd(key, val) ==
    /\ Idle
    /\ Len(hist) < MaxOps
    /\ data' = Store(data, key, val)
    /\ hist' = Append(hist, <<"Add", key, val>>)
    /\ got' = NoCall
    /\ UNCHANGED <<op, pc, i, workers, wg, rwMutex, urlValues, ret, attrFrame>>

\* func (e *entityAttributes) Del(key string)
AttrDel(key) ==
    /\ Idle
    /\ Len(hist) < MaxOps
    /\ data' = Delete(data, key)
    /\ hist' = Append(hist, <<"Del", key, "">>)
    /\ got' = NoCall
    /\ UNCHANGED <<op, pc, i, workers, wg, rwMutex, urlValues, ret, attrFrame>>

\* func (e *entityAttributes) Get(key string) string
AttrGet(key) ==
    /\ Idle
    /\ got' = [call |-> "Get", key |-> key, val |-> Lookup(data, key)]
    /\ UNCHANGED <<op, pc, i, workers, wg, rwMutex, urlValues, ret, data, hist, attrFrame>>

\* URLValues: ret := url.Values{}; wg, rwMutex; index := 0
AttrURLValues ==
    /\ Idle
    /\ op' = "URLValues"
    /\ pc' = "range"
    /\ i' = 0
    /\ workers' = <<>>
    /\ urlValues' = EmptyValues
    /\ got' = NoCall
    /\ ret' = [call |-> "URLValues", dest |-> EmptyValues]
    /\ UNCHANGED <<wg, rwMutex, data, hist, attrFrame>>

\* CopyTo(dest) with dest == nil: return
AttrCopyToNil ==
    /\ Idle
    /\ got' = [call |-> "CopyTo", nilDest |-> TRUE, vals |-> EmptyValues, dest |-> EmptyValues]
    /\ UNCHANGED <<op, pc, i, workers, wg, rwMutex, urlValues, ret, data, hist, attrFrame>>

\* CopyTo(dest): wg, rwMutex; index := 0
AttrCopyTo(dest) ==
    /\ Idle
    /\ op' = "CopyTo"
    /\ pc' = "range"
    /\ i' = 0
    /\ workers' = <<>>
    /\ urlValues' = dest
    /\ got' = NoCall
    /\ ret' = [call |-> "CopyTo", dest |-> dest]
    /\ UNCHANGED <<wg, rwMutex, data, hist, attrFrame>>

\* for key, val := range e.data { wg.Add(1); index++; go func(i, k, v) {...}(index, key, val) }
\* (a map is ranged over in any order)
AttrRange ==
    /\ pc = "range"
    /\ \E key \in DOMAIN data \ {workers[w].key : w \in DOMAIN workers} :
          /\ Go(<<i + 1>>, Wants(key, data[key]))
          /\ i' = i + 1
    /\ UNCHANGED <<op, pc, rwMutex, urlValues, ret, data, hist, got, attrFrame>>

\* ret.Add("attr-name"+strconv.Itoa(i), k); ret.Add("attr-value"+strconv.Itoa(i), v);
\* rwMutex.Unlock(); and the deferred wg.Done()
AttrAddPair(w) ==
    /\ pc = "range"
    /\ workers[w].pc = "held"
    /\ urlValues' = Add(Add(urlValues, "attr-name" \o Itoa(IndexArg(w)), workers[w].key),
                        "attr-value" \o Itoa(IndexArg(w)), workers[w].val)
    /\ rwMutex' = Free
    /\ Finish(w)
    /\ UNCHANGED <<op, pc, i, ret, data, hist, got, attrFrame>>

\* wg.Wait(); return ret  (CopyTo: return)
AttrWait ==
    /\ pc = "range"
    /\ DOMAIN data = {workers[w].key : w \in DOMAIN workers}
    /\ wg[Main] = 0
    /\ got' = [call |-> ret.call, nilDest |-> FALSE, vals |-> urlValues, dest |-> ret.dest]
    /\ pc' = "idle"
    /\ UNCHANGED <<op, i, workers, wg, rwMutex, urlValues, ret, data, hist, attrFrame>>

\* NewEntityAttributes()
AttrInit ==
    /\ op = "NewEntityAttributes"
    /\ rec = <<>>
    /\ pc = "idle"
    /\ i = 0
    /\ workers = <<>>
    /\ wg = (Main :> 0)
    /\ rwMutex = Free
    /\ urlValues = EmptyValues
    /\ ret = NotReturned
    /\ prev = <<>>
    /\ orig = <<>>
    /\ data = <<>>
    /\ hist = <<>>
    /\ got = NoCall

AttrNext ==
    \/ \E key \in AttrKeys, val \in AttrVals : AttrAdd(key, val)
    \/ \E key \in AttrKeys : AttrDel(key)
    \/ \E key \in AttrKeys : AttrGet(key)
    \/ AttrURLValues
    \/ AttrCopyToNil
    \/ \E dest \in Destinations : AttrCopyTo(dest)
    \/ AttrRange
    \/ \E w \in DOMAIN workers : pc = "range" /\ Lock(w)
    \/ \E w \in DOMAIN workers : AttrAddPair(w)
    \/ AttrWait

AttrSpec == AttrInit /\ [][AttrNext]_vars

-----------------------------------------------------------------------------
(* Properties of the attribute list.                                       *)

AttrName(k) == "attr-name" \o Itoa(k)
AttrValue(k) == "attr-value" \o Itoa(k)
PairsReturned == Idle /\ got.call \in {"URLValues", "CopyTo"} /\ ~got.nilDest

\* C7: a call of URLValues or CopyTo on a map with n entries uses exactly the
\* indices 1..n, puts one attr-name and one attr-value under each, both from
\* the same map entry, and every entry under exactly one index; what the
\* destination held is kept, and an empty map adds nothing.
C7_PairsByIndex ==
    PairsReturned =>
        LET n == Cardinality(DOMAIN data)
            added == DOMAIN got.vals \ DOMAIN got.dest
        IN  /\ added = {AttrName(k) : k \in 1..n} \cup {AttrValue(k) : k \in 1..n}
            /\ \A k \in 1..n :
                  /\ Len(got.vals[AttrName(k)]) = 1
                  /\ Len(got.vals[AttrValue(k)]) = 1
                  /\ got.vals[AttrName(k)][1] \in DOMAIN data
                  /\ data[got.vals[AttrName(k)][1]] = got.vals[AttrValue(k)][1]
            /\ \A key \in DOMAIN data :
                  Cardinality({k \in 1..n : got.vals[AttrName(k)][1] = key}) = 1
            /\ \A key \in DOMAIN got.dest : got.vals[key] = got.dest[key]
            /\ n = 0 => got.vals = got.dest

C7_Witness ==
    /\ PairsReturned
    /\ got.call = "CopyTo"
    /\ DOMAIN data = {"a", "b"}
    /\ got.dest = ("contact-id" :> <<"1">>)
    /\ got.vals["contact-id"] = <<"1">>
    /\ got.vals["attr-name1"] = <<"b">>
    /\ got.vals["attr-value1"] = <<data["b"]>>
    /\ got.vals["attr-name2"] = <<"a">>

\* the value of the most recent Add(key, v) that no Del(key) follows, else ""
RECURSIVE LastAdded(_, _)
LastAdded(h, key) ==
    IF h = <<>> THEN ""
    ELSE LET e == h[Len(h)] IN
         IF e[2] = key THEN (IF e[1] = "Add" THEN e[3] ELSE "")
         ELSE LastAdded(SubSeq(h, 1, Len(h) - 1), key)

\* C8: Get returns the value of the most recent Add not followed by a Del,
\* and "" otherwise; URLValues yields one pair per key present; a Del of an
\* absent key, and every step of Get, URLValues and CopyTo, leave the map as
\* it is.
C8_AttributeMap ==
    /\ [](/\ got.call = "Get" => got.val = LastAdded(hist, got.key)
          /\ (PairsReturned /\ got.call = "URLValues") =>
                LET present == {key \in AttrKeys : LastAdded(hist, key) # ""} IN
                /\ Cardinality(DOMAIN got.vals) = 2 * Cardinality(present)
                /\ \A key \in present : \E k \in 1..Cardinality(present) :
                      /\ got.vals[AttrName(k)] = <<key>>
                      /\ got.vals[AttrValue(k)] = <<LastAdded(hist, key)>>)
    /\ [][/\ hist' = hist => data' = data
          /\ \A key \in AttrKeys \ DOMAIN data :
                hist' = Append(hist, <<"Del", key, "">>) => data' = data]_vars

C8_Witness ==
    /\ hist = << <<"Add", "a", "1">>, <<"Del", "a", "">>, <<"Add", "b", "2">> >>
    /\ PairsReturned
    /\ got.call = "URLValues"
    /\ got.vals = ("attr-name1" :> <<"b">>) @@ ("attr-value1" :> <<"2">>)

-----------------------------------------------------------------------------
(* customer.Detail.mergePrevious: a goroutine per field, each filling its  *)
(* own field of the modification from the previous record.                 *)

\* the records customers/details hands back as the previous state
PreviousRecords ==
    {("ID" :> "9") @@ ("Username" :> u) @@ ("Name" :> n) @@ ("AltPhone" :> a)
        @@ ("WebsiteCount" :> 2) :
        u \in {"", "p@x.io"}, n \in {"", "pn"}, a \in {"", "6"}}

mergeFrame == <<op, prev, orig, rwMutex, urlValues, data, hist, got>>

\* the validator's verdict ignored: the field loop runs whatever it says
MergeValidateAndCarryOn ==
    /\ op = "mergePrevious"
    /\ pc = "validate"
    /\ pc' = "loop"
    /\ UNCHANGED <<rec, i, workers, wg, ret, mergeFrame>>

\* if err := validator.New().Struct(c); err != nil { return err }
MergeValidate ==
    /\ op = "mergePrevious"
    /\ pc = "validate"
    /\ LET bad == InvalidFields(op, rec) IN
       IF bad # {}
       THEN /\ ret' = Returned(EmptyValues, TRUE, ValidationError(bad))
            /\ pc' = "done"
       ELSE /\ pc' = "loop"
            /\ ret' = ret
    /\ UNCHANGED <<rec, i, workers, wg, mergeFrame>>

MergeSpawn == SpawnField("mergePrevious")

\* a field goroutine that copies the previous value whatever the field holds
MergeWorkerOverwriting(w) ==
    /\ AtBody("mergePrevious", w)
    /\ LET f == CustomerDetail[w[1]] IN
       IF f.tag.raw = "" \/ f.tag.raw = "-"
       THEN rec' = rec
       ELSE rec' = [rec EXCEPT ![f.name] = prev[f.name]]
    /\ Finish(w)
    /\ UNCHANGED <<pc, i, ret, mergeFrame>>

\* a field goroutine with the zero test negated: it copies over a set field
MergeWorkerOfSetFields(w) ==
    /\ AtBody("mergePrevious", w)
    /\ LET f == CustomerDetail[w[1]] IN
       IF f.tag.raw = "" \/ f.tag.raw = "-"
       THEN rec' = rec
       ELSE IF ~IsZero(f.kind, rec[f.name]) /\ f.kind = "string"
            THEN rec' = [rec EXCEPT ![f.name] = prev[f.name]]
            ELSE rec' = rec
    /\ Finish(w)
    /\ UNCHANGED <<pc, i, ret, mergeFrame>>

\* the body of go func(idx int), and its deferred wg.Done()
MergeWorker(w) ==
    /\ AtBody("mergePrevious", w)
    /\ LET f == CustomerDetail[w[1]]
           tagFieldCurrent == f.tag
           vFieldCurrent == rec[f.name]
           vFieldPrev == prev[f.name]
       IN  IF tagFieldCurrent.raw = "" \/ tagFieldCurrent.raw = "-"
           THEN rec' = rec
           ELSE IF IsZero(f.kind, vFieldCurrent)
                THEN IF HasSuffix(tagFieldCurrent, "omitempty")
                     THEN rec' = rec
                     ELSE IF f.kind = "string"
                          THEN rec' = [rec EXCEPT ![f.name] = vFieldPrev]
                          ELSE rec' = rec
                ELSE rec' = rec
    /\ Finish(w)
    /\ UNCHANGED <<pc, i, ret, mergeFrame>>

\* return nil without the wg.Wait() before it
MergeReturnWithoutWait ==
    /\ op = "mergePrevious"
    /\ pc = "loop"
    /\ i > Len(CustomerDetail)
    /\ ret' = Returned(EmptyValues, TRUE, NoError)
    /\ pc' = "done"
    /\ UNCHANGED <<rec, i, workers, wg, mergeFrame>>

\* wg.Wait(); return nil
MergeReturn ==
    /\ op = "mergePrevious"
    /\ pc = "loop"
    /\ i > Len(CustomerDetail)
    /\ wg[Main] = 0
    /\ ret' = Returned(EmptyValues, TRUE, NoError)
    /\ pc' = "done"
    /\ UNCHANGED <<rec, i, workers, wg, mergeFrame>>

\* mergePrevious(prev) called once more, on the record the first call left;
\* hist keeps the modification the first call was given
MergeAgain ==
    /\ op = "mergePrevious"
    /\ pc = "done"
    /\ ret.err = NoError
    /\ hist = <<>>
    /\ hist' = <<orig>>
    /\ orig' = rec
    /\ pc' = "validate"
    /\ i' = 1
    /\ workers' = <<>>
    /\ wg' = (Main :> 0)
    /\ ret' = NotReturned
    /\ UNCHANGED <<op, rec, prev, rwMutex, urlValues, data, got>>

MergeInit ==
    /\ op = "mergePrevious"
    /\ rec \in Records("mergePrevious")
    /\ orig = rec
    /\ prev \in PreviousRecords
    /\ pc = "validate"
    /\ i = 1
    /\ workers = <<>>
    /\ wg = (Main :> 0)
    /\ rwMutex = Free
    /\ urlValues = EmptyValues
    /\ ret = NotReturned
    /\ data = <<>>
    /\ hist = <<>>
    /\ got = NoCall

MergeNext ==
    \/ MergeValidate
    \/ MergeSpawn
    \/ \E w \in DOMAIN workers : MergeWorker(w)
    \/ MergeReturn
    \/ MergeAgain

MergeSpec == MergeInit /\ [][MergeNext]_vars

-----------------------------------------------------------------------------
(* Properties of mergePrevious.                                            *)

\* C9: no step of mergePrevious, in any interleaving, overwrites a non-zero
\* field of the modification, changes a field whose query tag is absent or
\* "-", changes a non-string field, or changes the previous record.
C9_MergeFrame ==
    [][/\ prev' = prev
       /\ \A f \in Fields("mergePrevious") :
             (~IsZero(f.kind, rec[f.name]) \/ ~Tagged(f) \/ f.kind # "string")
                 => rec'[f.name] = rec[f.name]]_vars

C9_Witness ==
    /\ op = "mergePrevious"
    /\ ReturnedOk
    /\ orig["Name"] = "" /\ rec["Name"] = "pn"
    /\ orig["Username"] = "u@x.io" /\ prev["Username"] = "p@x.io" /\ rec["Username"] = "u@x.io"
    /\ orig["ID"] = "" /\ rec["ID"] = "" /\ prev["ID"] = "9"
    /\ orig["WebsiteCount"] = 0 /\ rec["WebsiteCount"] = 0

\* C10: after a successful mergePrevious(prev), every tagged string field
\* that was zero in the modification and is not tagged optional equals the
\* field of prev, and every tagged optional field that was zero is still
\* zero.
C10_MergeFills ==
    (op = "mergePrevious" /\ ReturnedOk) =>
        \A f \in {g \in Fields("mergePrevious") : Tagged(g) /\ IsZero(g.kind, orig[g.name])} :
            /\ (f.kind = "string" /\ ~Optional(f)) => rec[f.name] = prev[f.name]
            /\ Optional(f) => IsZero(f.kind, rec[f.name])

C10_Witness ==
    /\ op = "mergePrevious"
    /\ ReturnedOk
    /\ orig["Username"] = "" /\ prev["Username"] = "p@x.io" /\ rec["Username"] = "p@x.io"
    /\ orig["AltPhone"] = "" /\ prev["AltPhone"] = "6" /\ rec["AltPhone"] = ""

\* C11: mergePrevious runs the validator before any field goroutine starts;
\* when the modification is invalid no goroutine is ever started, the
\* modification stays exactly as it was given, and the call returns the
\* validation error.
C11_MergeValidatesFirst ==
    op = "mergePrevious" =>
        /\ pc = "validate" => (workers = <<>> /\ rec = orig)
        /\ InvalidFields(op, orig) # {} =>
              /\ workers = <<>>
              /\ rec = orig
              /\ pc = "done" =>
                    ret = Returned(EmptyValues, TRUE, ValidationError(InvalidFields(op, orig)))

C11_Witness ==
    /\ op = "mergePrevious"
    /\ pc = "done"
    /\ ret.err = ValidationError({"AltPhone"})
    /\ orig["Name"] = "" /\ prev["Name"] = "pn"
    /\ rec["Name"] = ""
    /\ rec = orig

\* C12: when every tagged field of the modification is non-zero,
\* mergePrevious(prev) leaves the modification as it was, for every prev;
\* and a second mergePrevious(prev) on the result of the first leaves that
\* result as it is.
C12_MergeFixpoint ==
    (op = "mergePrevious" /\ pc = "done") =>
        /\ (\A f \in Fields("mergePrevious") : Tagged(f) => ~IsZero(f.kind, orig[f.name]))
              => rec = orig
        /\ Len(hist) = 1 => rec = orig

C12_Witness ==
    /\ op = "mergePrevious"
    /\ ReturnedOk
    /\ Len(hist) = 1
    /\ hist[1]["Name"] = "" /\ hist[1]["Username"] = "u@x.io" /\ hist[1]["AltPhone"] = "5"
    /\ prev["Name"] = "pn" /\ prev["Username"] = "p@x.io" /\ prev["AltPhone"] = "6"
    /\ rec["Name"] = "pn" /\ rec["Username"] = "u@x.io" /\ rec["AltPhone"] = "5"
    /\ rec = orig

-----------------------------------------------------------------------------
(* Responses.  A body is the JSON text the transport hands back; it is     *)
(* kept by its structure, an object being the sequence of its members in   *)
(* the order of the text, and Malformed standing for a text that is not    *)
(* JSON.                                                                   *)

Str(s) == [str |-> s]
Num(n) == [num |-> n]
Obj(members) == [obj |-> members]
Arr(items) == [arr |-> items]
\* the bare text true or false
Bool(b) == [bool |-> b]
Malformed == [bad |-> TRUE]
IsStr(v) == "str" \in DOMAIN v
IsNum(v) == "num" \in DOMAIN v
IsObj(v) == "obj" \in DOMAIN v
IsArr(v) == "arr" \in DOMAIN v
IsBool(v) == "bool" \in DOMAIN v

StatusOK == 200
StatusError == 500

UpperLetters == "ABCDEFGHIJKLMNOPQRSTUVWXYZ"
LowerLetters == "abcdefghijklmnopqrstuvwxyz"
Digits == "0123456789"
\* the position of the one-letter string c in letters, 0 when it is not there
Position(letters, c) ==
    LET hits == {k \in 1..Len(letters) : SubSeq(letters, k, k) = c} IN
    IF hits = {} THEN 0 ELSE CHOOSE k \in hits : TRUE

\* strings.ToLower
RECURSIVE ToLower(_)
ToLower(s) ==
    IF s = "" THEN ""
    ELSE LET c == SubSeq(s, 1, 1)
             k == Position(UpperLetters, c)
         IN  (IF k = 0 THEN c ELSE SubSeq(LowerLetters, k, k)) \o ToLower(SubSeq(s, 2, Len(s)))

\* the field lookup of encoding/json: the exact name, else a case-insensitive match
EqualFold(a, b) == ToLower(a) = ToLower(b)

\* strconv.Atoi: [ok, n]
RECURSIVE AtoiDigits(_, _)
AtoiDigits(s, acc) ==
    IF s = "" THEN [ok |-> TRUE, n |-> acc]
    ELSE LET k == Position(Digits, SubSeq(s, 1, 1)) IN
         IF k = 0 THEN [ok |-> FALSE, n |-> 0]
         ELSE AtoiDigits(SubSeq(s, 2, Len(s)), acc * 10 + (k - 1))
Atoi(s) == IF s = "" THEN [ok |-> FALSE, n |-> 0] ELSE AtoiDigits(s, 0)

\* core.RgxNumber.MatchString
RgxNumber(s) == Atoi(s).ok

\* strings.NewReplacer(old1, "", old2, "", ...).Replace(s): left to right, the
\* first old string that matches at a position is cut out
RECURSIVE Replace(_, _)
Replace(olds, s) ==
    IF s = "" THEN ""
    ELSE LET hits == {k \in DOMAIN olds :
                        Len(olds[k]) <= Len(s) /\ SubSeq(s, 1, Len(olds[k])) = olds[k]}
         IN  IF hits # {}
             THEN LET k == CHOOSE h \in hits : \A g \in hits : h <= g IN
                  Replace(olds, SubSeq(s, Len(olds[k]) + 1, Len(s)))
             ELSE SubSeq(s, 1, 1) \o Replace(olds, SubSeq(s, 2, Len(s)))

\* the replacer run over the text of a body: it meets every key and every
\* string value, at any depth
RECURSIVE ReplaceText(_, _)
ReplaceText(olds, v) ==
    IF IsStr(v) THEN Str(Replace(olds, v.str))
    ELSE IF IsObj(v)
         THEN Obj([k \in DOMAIN v.obj |->
                     <<Replace(olds, v.obj[k][1]), ReplaceText(olds, v.obj[k][2])>>])
    ELSE IF IsArr(v)
         THEN Arr([k \in DOMAIN v.arr |-> ReplaceText(olds, v.arr[k])])
    ELSE v

\* json.Unmarshal into a map[string]T: the last member with a key wins
RECURSIVE MapOf(_, _)
MapOf(members, k) ==
    IF k = 0 THEN <<>>
    ELSE LET rest == MapOf(members, k - 1)
             key == members[k][1]
         IN  (key :> members[k][2]) @@ [x \in DOMAIN rest \ {key} |-> rest[x]]

\* the json tag of each field of customer.Detail ("-" is never decoded)
CustomerDetailJSON ==
    ("ID" :> "customerid") @@ ("Username" :> "username") @@ ("Name" :> "name")
        @@ ("AltPhone" :> "-") @@ ("WebsiteCount" :> "websitecount")

\* the json tag of each field of contact.Detail
ContactDetailJSON ==
    ("ID" :> "entityid") @@ ("Type" :> "type") @@ ("CustomerID" :> "customerid")
        @@ ("Name" :> "name") @@ ("AddressLine2" :> "address2")
        @@ ("FaxCountryCode" :> "faxnocc") @@ ("ActionCompleted" :> "actioncompleted")

JSONName(o) == IF o = "contact.Detail" THEN ContactDetailJSON ELSE CustomerDetailJSON

\* Detail{}: every field at its zero value
ZeroValue(kind) ==
    CASE kind = "string" -> ""
      [] kind = "bool"   -> FALSE
      [] kind = "slice"  -> <<>>
      [] OTHER           -> 0
ZeroRecord(o) == [name \in FieldNames(o) |-> ZeroValue(FieldOf(o, name).kind)]

\* the field a key of the body is decoded into: the exact json name, else the
\* first field whose json name matches without regard to case; 0 when none
FieldForKey(o, key) ==
    LET sch == Schema(o)
        exact == {k \in DOMAIN sch : JSONName(o)[sch[k].name] # "-" /\ JSONName(o)[sch[k].name] = key}
        fold == {k \in DOMAIN sch : JSONName(o)[sch[k].name] # "-"
                                       /\ EqualFold(JSONName(o)[sch[k].name], key)}
    IN  IF exact # {} THEN CHOOSE k \in exact : TRUE
        ELSE IF fold # {} THEN CHOOSE k \in fold : \A g \in fold : k <= g
        ELSE 0

\* json.Unmarshal of the members of an object into a struct value: a member
\* sets the field it names, a member naming no field is skipped, a field no
\* member names keeps the value it had, and a value of the wrong JSON type is
\* an error once the other members are decoded
RECURSIVE UnmarshalMembers(_, _, _, _)
UnmarshalMembers(o, members, k, acc) ==
    IF k > Len(members) THEN acc
    ELSE LET key == members[k][1]
             val == members[k][2]
             idx == FieldForKey(o, key)
         IN  IF idx = 0 THEN UnmarshalMembers(o, members, k + 1, acc)
             ELSE LET f == Schema(o)[idx]
                      fits == IF f.kind = "string" THEN IsStr(val) ELSE IsNum(val)
                      v == IF f.kind = "string" THEN val.str ELSE val.num
                  IN  IF fits
                      THEN UnmarshalMembers(o, members, k + 1,
                               [acc EXCEPT !.rec = [@ EXCEPT ![f.name] = v]])
                      ELSE UnmarshalMembers(o, members, k + 1, [acc EXCEPT !.err = TRUE])

\* json.Unmarshal(bytes, &detail): [rec, err]
Unmarshal(o, v, into) ==
    IF IsObj(v) THEN UnmarshalMembers(o, v.obj, 1, [rec |-> into, err |-> FALSE])
    ELSE [rec |-> into, err |-> TRUE]

\* json.Unmarshal(bytes, &details) for a []Detail: every element into a new Detail
UnmarshalSlice(o, v) ==
    IF IsArr(v)
    THEN [recs |-> [k \in DOMAIN v.arr |-> Unmarshal(o, v.arr[k], ZeroRecord(o)).rec],
          err |-> \E k \in DOMAIN v.arr : Unmarshal(o, v.arr[k], ZeroRecord(o)).err]
    ELSE [recs |-> <<>>, err |-> TRUE]

\* json.Unmarshal(bytesResp, &errResponse) for core.JSONStatusResponse:
\* [message, err]
UnmarshalEnvelope(v) ==
    IF ~IsObj(v) THEN [message |-> "", err |-> TRUE]
    ELSE LET named == {k \in DOMAIN v.obj : EqualFold(v.obj[k][1], "message")}
             typed == {k \in DOMAIN v.obj : EqualFold(v.obj[k][1], "status")} \cup named
             last == CHOOSE k \in named : \A g \in named : g <= k
         IN  [message |-> IF named # {} /\ IsStr(v.obj[last][2]) THEN v.obj[last][2].str ELSE "",
              err |-> \E k \in typed : ~IsStr(v.obj[k][2])]

\* string(dataBytes) for a core.JSONBytes: the text of the value
JSONBytesText(v) ==
    IF IsStr(v) THEN v.str
    ELSE IF IsNum(v) THEN Itoa(v.num)
    ELSE "{}"

\* the count kept when strconv.Atoi fails is whatever Atoi handed back with
\* the error, and the error is returned
CountOrError(text) == [n |-> Atoi(text).n, err |-> ~Atoi(text).ok]
\* numMatched, err = strconv.Atoi(string(dataBytes)); if err != nil { numMatched = 0 }
CountOrZero(text) == [n |-> IF Atoi(text).ok THEN Atoi(text).n ELSE 0, err |-> FALSE]

ParseError == [kind |-> "json", fields |-> {}]
AtoiError == [kind |-> "atoi", fields |-> {}]
\* errors.New(message)
UpstreamError(message) == [kind |-> "upstream", fields |-> {}, message |-> message]
\* *ErrorAuthentication
ErrorAuthentication(message) == [kind |-> "authentication", fields |-> {}, message |-> message]

-----------------------------------------------------------------------------
(* The endpoint wrappers, from the point where CallAPI and io.ReadAll have *)
(* handed back a status code and a body: rec is that response, data the    *)
(* map the body is parsed into, hist the keys of it ranged over so far, in *)
(* the order the range met them, and got the locals of the range loop.     *)

ClassifiedDecoders == {"customer.Search", "contact.Search", "dns.SearchingDNSRecords"}
DirectDecoders == {"customer.Details", "contact.Details", "customer.Authenticate"}
Wrappers ==
    ClassifiedDecoders \cup DirectDecoders
        \cup {"domain.CheckAvailability", "domain.SearchRegistrationOrders"}

\* the record type a wrapper decodes into
DetailOf(o) == IF o \in {"contact.Search", "contact.Details"} THEN "contact.Detail"
               ELSE "customer.Detail"

\* the arguments of strings.NewReplacer, the new strings all being ""
Prefixes(o) ==
    CASE o = "customer.Search" -> <<"customer.">>
      [] o = "contact.Search"  -> <<"entity.", "contact.">>
      [] OTHER                 -> <<>>

\* the subsequence of s at the positions in sel
RECURSIVE Pick(_, _, _)
Pick(s, sel, k) ==
    IF k > Len(s) THEN <<>>
    ELSE (IF k \in sel THEN <<s[k]>> ELSE <<>>) \o Pick(s, sel, k + 1)

\* the members a success body is made from
Members(o) ==
    CASE o = "customer.Search" ->
           << <<"recsindb", Str("2")>>,
              <<"recsindb", Str("not-a-number")>>,
              <<"1", Obj(<< <<"customer.customerid", Str("1")>>,
                            <<"customer.username", Str("u@x.io")>>,
                            <<"customer.name", Str("A")>> >>)>>,
              <<"2", Obj(<< <<"customerid", Str("2")>>, <<"name", Str("B")>> >>)>>,
              <<"3", Str("x")>>,
              <<"foo", Str("x")>> >>
      [] o = "contact.Search" ->
           << <<"recsindb", Str("2")>>,
              <<"recsindb", Str("not-a-number")>>,
              <<"result", Arr(<< Obj(<< <<"contact.name", Str("A")>>,
                                        <<"entity.customerid", Str("1")>> >>),
                                 Obj(<< <<"name", Str("B")>> >>) >>)>>,
              <<"result", Arr(<<>>)>>,
              <<"result", Str("x")>>,
              <<"foo", Str("x")>> >>
      [] o = "dns.SearchingDNSRecords" ->
           << <<"recsonpage", Str("1")>>,
              <<"recsindb", Str("2")>>,
              <<"1", Obj(<< <<"host", Str("www")>>, <<"value", Str("10.0.0.1")>> >>)>>,
              <<"2", Obj(<< <<"host", Str("ftp")>> >>)>>,
              <<"foo", Str("x")>> >>
      [] o = "contact.Details" ->
           << <<"entityid", Str("9")>>, <<"contact.name", Str("A")>>,
              <<"entity.customerid", Str("1")>>, <<"Type", Str("Contact")>>,
              <<"address2", Num(5)>> >>
      [] o = "domain.CheckAvailability" ->
           << <<"d.com", Obj(<< <<"classkey", Str("domcno")>>, <<"status", Str("available")>> >>)>>,
              <<"e.com", Obj(<< <<"status", Str("regthroughothers")>> >>)>>,
              <<"f.com", Str("x")>> >>
      [] OTHER ->
           << <<"customerid", Str("9")>>, <<"customer.name", Str("A")>>,
              <<"username", Str("u@x.io")>>, <<"Name", Str("B")>>, <<"name", Num(5)>> >>

\* the bodies a wrapper is handed: objects of distinct keys, the error
\* envelope, an envelope whose message is no string, and a text that is not JSON
Bodies(o) ==
    (IF o = "customer.Modify" THEN {Bool(TRUE), Bool(FALSE)}
     ELSE {Obj(Pick(Members(o), sel, 1)) :
             sel \in {s \in SUBSET DOMAIN Members(o) :
                         \A a, b \in s : a # b => Members(o)[a][1] # Members(o)[b][1]}})
        \cup {Obj(<< <<"status", Str("ERROR")>>, <<"message", Str("Invalid Password")>> >>),
              Obj(<< <<"status", Str("ERROR")>>, <<"message", Num(5)>> >>),
              Malformed}

Locals == [records |-> <<>>, numMatched |-> 0, dataBuffer |-> ZeroRecord("customer.Detail"),
           Recsindb |-> "", RecsOnPage |-> ""]

wrapperFrame == <<op, rec, i, workers, wg, rwMutex, urlValues, prev, orig>>

\* return nil, err
Fail(err) ==
    /\ ret' = Returned(EmptyValues, TRUE, err)
    /\ pc' = "done"

\* if resp.StatusCode != http.StatusOK { ...; return nil, errors.New(strings.ToLower(errResponse.Message)) }
ErrorEnvelope ==
    /\ op \in (Wrappers \cup {"customer.Modify"})
                \ {"customer.Authenticate", "domain.SearchRegistrationOrders"}
    /\ pc = "status"
    /\ rec.status # StatusOK
    /\ LET errResponse == UnmarshalEnvelope(rec.body) IN
       IF errResponse.err THEN Fail(ParseError)
       ELSE Fail(UpstreamError(ToLower(errResponse.message)))
    /\ UNCHANGED <<data, hist, got, wrapperFrame>>

\* customer.Authenticate: err := json.Unmarshal(bytesResp, errAuth); ...; return nil, errAuth
AuthenticateError ==
    /\ op = "customer.Authenticate"
    /\ pc = "status"
    /\ rec.status # StatusOK
    /\ LET errAuth == UnmarshalEnvelope(rec.body) IN
       IF errAuth.err THEN Fail(ErrorAuthentication("json: cannot unmarshal"))
       ELSE Fail(ErrorAuthentication(errAuth.message))
    /\ UNCHANGED <<data, hist, got, wrapperFrame>>

\* domain.SearchRegistrationOrders: d.core.PrintResponse(bytesResp); return nil
SearchRegistrationOrdersReturn ==
    /\ op = "domain.SearchRegistrationOrders"
    /\ pc = "status"
    /\ ret' = Returned(EmptyValues, TRUE, NoError)
    /\ pc' = "done"
    /\ UNCHANGED <<data, hist, got, wrapperFrame>>

\* ret := new(Detail); json.Unmarshal(bytesResp, ret); return ret, nil
DirectDecode ==
    /\ op \in DirectDecoders
    /\ pc = "status"
    /\ rec.status = StatusOK
    /\ LET u == Unmarshal(DetailOf(op), rec.body, ZeroRecord(DetailOf(op))) IN
       IF u.err
       THEN Fail(IF op = "customer.Authenticate"
                 THEN ErrorAuthentication("json: cannot unmarshal") ELSE ParseError)
       ELSE /\ ret' = Returned(u.rec, FALSE, NoError)
            /\ pc' = "done"
    /\ UNCHANGED <<data, hist, got, wrapperFrame>>

\* availabilities := Availabilities{}; json.Unmarshal(bytesResp, &availabilities)
AvailabilitiesDecode ==
    /\ op = "domain.CheckAvailability"
    /\ pc = "status"
    /\ rec.status = StatusOK
    /\ IF ~IsObj(rec.body) \/ \E k \in DOMAIN rec.body.obj : ~IsObj(rec.body.obj[k][2])
       THEN Fail(ParseError)
       ELSE /\ ret' = Returned(MapOf(rec.body.obj, Len(rec.body.obj)), FALSE, NoError)
            /\ pc' = "done"
    /\ UNCHANGED <<data, hist, got, wrapperFrame>>

\* strResp := replacer.Replace(string(bytesResp));
\* var buffer map[string]core.JSONBytes; json.Unmarshal([]byte(strResp), &buffer)
SearchParse ==
    /\ op \in ClassifiedDecoders
    /\ pc = "status"
    /\ rec.status = StatusOK
    /\ LET strResp == ReplaceText(Prefixes(op), rec.body) IN
       IF ~IsObj(strResp)
       THEN /\ Fail(ParseError)
            /\ UNCHANGED <<data, got>>
       ELSE /\ data' = MapOf(strResp.obj, Len(strResp.obj))
            /\ got' = Locals
            /\ pc' = "range"
            /\ ret' = ret
    /\ UNCHANGED <<hist, wrapperFrame>>

\* the keys of buffer the range loop has still to meet
Unranged == DOMAIN data \ Range(hist)

\* one turn of the range of customer.Search in which a record that does not
\* decode is passed over
CustomerSearchKeySkipping(key) ==
    /\ op = "customer.Search"
    /\ pc = "range"
    /\ key \in Unranged
    /\ hist' = Append(hist, key)
    /\ IF RgxNumber(key) /\ ~Unmarshal("customer.Detail", data[key], got.dataBuffer).err
       THEN LET u == Unmarshal("customer.Detail", data[key], got.dataBuffer) IN
            got' = [got EXCEPT !.dataBuffer = u.rec, !.records = Append(@, u.rec)]
       ELSE IF key = "recsindb"
       THEN got' = [got EXCEPT !.numMatched = CountOrZero(JSONBytesText(data[key])).n]
       ELSE got' = got
    /\ UNCHANGED <<pc, ret, data, wrapperFrame>>

\* customer.Search: one turn of  for key, dataBytes := range buffer
CustomerSearchKey(key) ==
    /\ op = "customer.Search"
    /\ pc = "range"
    /\ key \in Unranged
    /\ hist' = Append(hist, key)
    /\ IF RgxNumber(key)
       THEN LET u == Unmarshal("customer.Detail", data[key], got.dataBuffer) IN
            IF u.err
            THEN Fail(ParseError) /\ got' = got
            ELSE /\ got' = [got EXCEPT !.dataBuffer = u.rec,
                                       !.records = Append(@, u.rec)]
                 /\ UNCHANGED <<pc, ret>>
       ELSE IF key = "recsindb"
       THEN LET c == CountOrZero(JSONBytesText(data[key])) IN
            IF c.err
            THEN Fail(AtoiError) /\ got' = got
            ELSE /\ got' = [got EXCEPT !.numMatched = c.n]
                 /\ UNCHANGED <<pc, ret>>
       ELSE UNCHANGED <<pc, ret, got>>
    /\ UNCHANGED <<data, wrapperFrame>>

\* contact.Search: one turn of  for key, dataBytes := range buffer
ContactSearchKey(key) ==
    /\ op = "contact.Search"
    /\ pc = "range"
    /\ key \in Unranged
    /\ hist' = Append(hist, key)
    /\ IF key = "recsindb"
       THEN LET c == CountOrZero(JSONBytesText(data[key])) IN
            IF c.err
            THEN Fail(AtoiError) /\ got' = got
            ELSE /\ got' = [got EXCEPT !.numMatched = c.n]
                 /\ UNCHANGED <<pc, ret>>
       ELSE IF key = "result"
       THEN LET s == UnmarshalSlice("contact.Detail", data[key]) IN
            IF s.err
            THEN Fail(ParseError) /\ got' = got
            ELSE /\ got' = [got EXCEPT !.records = s.recs]
                 /\ UNCHANGED <<pc, ret>>
       ELSE UNCHANGED <<pc, ret, got>>
    /\ UNCHANGED <<data, wrapperFrame>>

\* fmt.Sprintf("%v", v)
Sprintf(v) == JSONBytesText(v)

\* dns.SearchingDNSRecords: b, _ := json.Marshal(v); json.Unmarshal(b, &record)
RecordOf(v) == [rec |-> v, err |-> ~IsObj(v)]

\* dns.SearchingDNSRecords: one turn of  for k, v := range result
DNSSearchKey(key) ==
    /\ op = "dns.SearchingDNSRecords"
    /\ pc = "range"
    /\ key \in Unranged
    /\ hist' = Append(hist, key)
    /\ IF key = "recsonpage"
       THEN got' = [got EXCEPT !.RecsOnPage = Sprintf(data[key])] /\ UNCHANGED <<pc, ret>>
       ELSE IF key = "recsindb"
       THEN got' = [got EXCEPT !.Recsindb = Sprintf(data[key])] /\ UNCHANGED <<pc, ret>>
       ELSE IF ~Atoi(key).ok
       THEN Fail(AtoiError) /\ got' = got
       ELSE LET r == RecordOf(data[key]) IN
            IF r.err
            THEN Fail(ParseError) /\ got' = got
            ELSE /\ got' = [got EXCEPT !.records = Append(@, r.rec)]
                 /\ UNCHANGED <<pc, ret>>
    /\ UNCHANGED <<data, wrapperFrame>>

\* return &SearchResult{..., TotalMatched: numMatched}, nil
SearchReturn ==
    /\ op \in ClassifiedDecoders
    /\ pc = "range"
    /\ Unranged = {}
    /\ ret' = Returned([records |-> got.records, TotalMatched |-> got.numMatched,
                        Recsindb |-> got.Recsindb, RecsOnPage |-> got.RecsOnPage],
                       FALSE, NoError)
    /\ pc' = "done"
    /\ UNCHANGED <<data, hist, got, wrapperFrame>>

-----------------------------------------------------------------------------
(* customer.Modify: orig is the modification the caller passes, got the    *)
(* callee's copy of it, prev the record Details hands back, urlValues the  *)
(* encoded parameters, rec the response CallAPI will hand back, and hist   *)
(* the calls that have returned an error so far.                           *)

\* what c.Details(customerIDOrEmail) can hand back: nothing the server
\* stores need pass the validator
ModifyPrevious ==
    PreviousRecords
        \cup {("ID" :> "9") @@ ("Username" :> "p-x") @@ ("Name" :> "pn") @@ ("AltPhone" :> "6")
                 @@ ("WebsiteCount" :> 2)}

\* the record mergePrevious(p) leaves in r when it returns nil
Merged(r, p) ==
    [name \in DOMAIN r |->
        LET f == FieldOf("customer.Detail", name) IN
        IF Tagged(f) /\ IsZero(f.kind, r[name]) /\ ~HasSuffix(f.tag, "omitempty")
              /\ f.kind = "string"
        THEN p[name] ELSE r[name]]

TransportError == [kind |-> "transport", fields |-> {}]
ParseBoolError == [kind |-> "strconv.ParseBool", fields |-> {}]
ErrRcOperationFailed == [kind |-> "operation failed", fields |-> {}]

modifyFrame == <<op, rec, i, workers, wg, rwMutex, orig, data>>

\* return nil
ReturnNil ==
    /\ ret' = Returned(EmptyValues, TRUE, NoError)
    /\ pc' = "done"

\* customerBefore, err := c.Details(customerIDOrEmail); if err != nil { return nil }
ModifyDetails ==
    /\ op = "customer.Modify"
    /\ pc = "details"
    /\ \/ /\ hist' = Append(hist, "Details")
          /\ ReturnNil
          /\ prev' = prev
       \/ /\ prev' \in ModifyPrevious
          /\ pc' = "merge"
          /\ UNCHANGED <<hist, ret>>
    /\ UNCHANGED <<got, urlValues, modifyFrame>>

\* if err := modification.mergePrevious(customerBefore); err != nil { return nil }
ModifyMerge ==
    /\ op = "customer.Modify"
    /\ pc = "merge"
    /\ IF InvalidFields("customer.Detail", got) # {}
       THEN /\ hist' = Append(hist, "mergePrevious")
            /\ ReturnNil
            /\ got' = got
       ELSE /\ got' = Merged(got, prev)
            /\ pc' = "encode"
            /\ UNCHANGED <<hist, ret>>
    /\ UNCHANGED <<prev, urlValues, modifyFrame>>

\* the parameters sent on although URLValues has returned an error
ModifyEncodeAndCarryOn ==
    /\ op = "customer.Modify"
    /\ pc = "encode"
    /\ hist' = IF InvalidFields("customer.Detail", got) # {} THEN Append(hist, "URLValues") ELSE hist
    /\ urlValues' = Add(SequentialWalk("customer.Detail", got), "customer-id", prev["ID"])
    /\ pc' = "call"
    /\ UNCHANGED <<ret, prev, got, modifyFrame>>

\* data, err := modification.URLValues(); if err != nil { return nil };
\* data.Add("customer-id", customerBefore.ID)
ModifyEncode ==
    /\ op = "customer.Modify"
    /\ pc = "encode"
    /\ IF InvalidFields("customer.Detail", got) # {}
       THEN /\ hist' = Append(hist, "URLValues")
            /\ ReturnNil
            /\ urlValues' = urlValues
       ELSE /\ urlValues' = Add(SequentialWalk("customer.Detail", got), "customer-id", prev["ID"])
            /\ pc' = "call"
            /\ UNCHANGED <<hist, ret>>
    /\ UNCHANGED <<prev, got, modifyFrame>>

\* resp, err := c.core.CallAPI(...); if err != nil { return err }
ModifyCall ==
    /\ op = "customer.Modify"
    /\ pc = "call"
    /\ \/ /\ hist' = Append(hist, "CallAPI")
          /\ Fail(TransportError)
       \/ /\ pc' = "status"
          /\ UNCHANGED <<hist, ret>>
    /\ UNCHANGED <<prev, got, urlValues, modifyFrame>>

\* boolResult, err := strconv.ParseBool(string(bytesResp)); ...
ModifyResult ==
    /\ op = "customer.Modify"
    /\ pc = "status"
    /\ rec.status = StatusOK
    /\ IF ~IsBool(rec.body) THEN Fail(ParseBoolError)
       ELSE IF ~rec.body.bool THEN Fail(ErrRcOperationFailed)
       ELSE ReturnNil
    /\ UNCHANGED <<hist, prev, got, urlValues, modifyFrame>>

WrapperInit ==
    /\ op \in Wrappers \cup {"customer.Modify"}
    /\ rec \in [status : {StatusOK, StatusError}, body : Bodies(op)]
    /\ orig \in (IF op = "customer.Modify" THEN Records("customer.Detail") ELSE {<<>>})
    /\ got = (IF op = "customer.Modify" THEN orig ELSE NoCall)
    /\ pc = (IF op = "customer.Modify" THEN "details" ELSE "status")
    /\ i = 0
    /\ workers = <<>>
    /\ wg = (Main :> 0)
    /\ rwMutex = Free
    /\ urlValues = EmptyValues
    /\ ret = NotReturned
    /\ prev = <<>>
    /\ data = <<>>
    /\ hist = <<>>

WrapperNext ==
    \/ ErrorEnvelope
    \/ AuthenticateError
    \/ SearchRegistrationOrdersReturn
    \/ DirectDecode
    \/ AvailabilitiesDecode
    \/ SearchParse
    \/ \E key \in DOMAIN data : CustomerSearchKey(key)
    \/ \E key \in DOMAIN data : ContactSearchKey(key)
    \/ \E key \in DOMAIN data : DNSSearchKey(key)
    \/ SearchReturn
    \/ ModifyDetails
    \/ ModifyMerge
    \/ ModifyEncode
    \/ ModifyCall
    \/ ModifyResult

WrapperSpec == WrapperInit /\ [][WrapperNext]_vars

-----------------------------------------------------------------------------
(* Properties of the endpoint wrappers.                                    *)

\* the wrapper has returned after seeing the response
Answered ==
    /\ pc = "done"
    /\ op = "customer.Modify" => (urlValues # EmptyValues /\ hist = <<>>)

\* C13: a wrapper that is handed a status code other than 200 returns a
\* non-nil error and no payload, whatever the body holds, never parses the
\* body as a payload, and returns the parse error when the body is not an
\* error envelope.
C13_ErrorStatusFails ==
    /\ (pc = "range" \/ data # <<>>) => rec.status = StatusOK
    /\ (Answered /\ rec.status # StatusOK) =>
          /\ ret.err # NoError
          /\ ret.isNil
          /\ UnmarshalEnvelope(rec.body).err =>
                ret.err \in {ParseError, ErrorAuthentication("json: cannot unmarshal")}

\* C14: when the status code is not 200 and the body parses as the error
\* envelope, the reason of the error a wrapper surfaces is the envelope's
\* message in lower case, customer.Authenticate included.
C14_ReasonLowerCased ==
    (Answered /\ rec.status # StatusOK /\ ~UnmarshalEnvelope(rec.body).err /\ ret.err # NoError) =>
        ret.err.message = ToLower(UnmarshalEnvelope(rec.body).message)

\* C15: customer.Modify returns a non-nil error whenever Details fails,
\* mergePrevious rejects the modification or URLValues fails to encode it.
C15_ModifyReportsFailure ==
    (op = "customer.Modify" /\ pc = "done"
        /\ \E k \in DOMAIN hist : hist[k] \in {"Details", "mergePrevious", "URLValues"}) =>
        ret.err # NoError

\* the keys of the parsed body that hold records, for customer.Search and
\* contact.Search
RecordKeys == {k \in DOMAIN data : IF op = "customer.Search" THEN RgxNumber(k) ELSE k = "result"}
\* the number of records those keys hold
RecordCount ==
    IF op = "customer.Search" THEN Cardinality(RecordKeys)
    ELSE IF "result" \in DOMAIN data THEN Len(data["result"].arr) ELSE 0
\* a record key whose value does not decode
Undecodable(k) ==
    IF op = "customer.Search" THEN ~IsObj(data[k])
    ELSE UnmarshalSlice("contact.Detail", data[k]).err

\* C16: in customer.Search and contact.Search a 'recsindb' value that is no
\* integer leaves TotalMatched at 0 and the decode succeeds with the records
\* of the other keys; 'recsindb' yields no record; and TotalMatched is a
\* function of the 'recsindb' value alone, whatever the order of the range.
C16_RecsindbTolerated ==
    (op \in {"customer.Search", "contact.Search"} /\ pc = "done" /\ rec.status = StatusOK
        /\ IsObj(rec.body)) =>
        LET text == IF "recsindb" \in DOMAIN data THEN JSONBytesText(data["recsindb"]) ELSE "" IN
        /\ ret.err # NoError => \E k \in RecordKeys : Undecodable(k)
        /\ ret.err = NoError =>
              /\ Len(ret.vals.records) = RecordCount
              /\ ret.vals.TotalMatched = (IF Atoi(text).ok THEN Atoi(text).n ELSE 0)

C16_Witness ==
    /\ op = "customer.Search"
    /\ ReturnedOk
    /\ hist = <<"1", "recsindb", "2">>
    /\ data["recsindb"] = Str("not-a-number")
    /\ ret.vals.TotalMatched = 0
    /\ Len(ret.vals.records) = 2

\* the prefixes the claim names for a wrapper
NamedPrefixes(o) ==
    IF o \in {"contact.Search", "contact.Details"} THEN <<"entity.", "contact.">>
    ELSE <<"customer.">>

\* C17: on a success response the prefixes 'entity.' and 'contact.'
\* ('customer.' for the customer wrappers) are removed from the text of the
\* body before it is parsed, in the search wrappers and in the direct
\* decoders contact.Details and customer.Details alike.
C17_PrefixesRemoved ==
    /\ (op \in {"customer.Search", "contact.Search"} /\ pc = "range") =>
          LET text == ReplaceText(NamedPrefixes(op), rec.body) IN
          data = MapOf(text.obj, Len(text.obj))
    /\ (op \in {"customer.Details", "contact.Details"} /\ ReturnedOk) =>
          ret.vals = Unmarshal(DetailOf(op), ReplaceText(NamedPrefixes(op), rec.body),
                               ZeroRecord(DetailOf(op))).rec

\* C18: in the classified decoders a top-level key that is neither a record
\* key (a numeric identifier, or 'result') nor a bookkeeping key makes the
\* decode fail.
C18_UnknownKeyFails ==
    (op \in ClassifiedDecoders /\ pc = "done" /\ rec.status = StatusOK
        /\ \E k \in DOMAIN data :
              ~RgxNumber(k) /\ k \notin {"result", "recsindb", "recsonpage"}) =>
        ret.err # NoError

\* C19: customer.Search returns one Detail per numeric key, and each Detail
\* is the parse of its own nested value into an empty Detail, whatever the
\* other records are and whatever order the keys are ranged in.
C19_RecordsParsedAlone ==
    (op = "customer.Search" /\ ReturnedOk) =>
        LET keys == SelectSeq(hist, RgxNumber) IN
        /\ Len(ret.vals.records) = Cardinality({k \in DOMAIN data : RgxNumber(k)})
        /\ Len(keys) = Len(ret.vals.records)
        /\ \A k \in DOMAIN keys :
              ret.vals.records[k] =
                  Unmarshal("customer.Detail", data[keys[k]], ZeroRecord("customer.Detail")).rec

-----------------------------------------------------------------------------
(* Encoding and decoding together.                                         *)

\* the JSON object a server echoing the parameters sends back: one member
\* per key, holding the key's value
RECURSIVE EchoOf(_, _)
EchoOf(vals, keys) ==
    IF keys = {} THEN <<>>
    ELSE LET key == CHOOSE k \in keys : TRUE IN
         <<<<key, Str(vals[key][1])>>>> \o EchoOf(vals, keys \ {key})

\* C20: for customer.Detail and contact.Detail, encoding a valid record whose
\* tagged fields are all set and decoding a JSON object of exactly the
\* encoded key/value pairs into the same type gives back the record on every
\* tagged string field.
C20_RoundTrip ==
    (op \in {"customer.Detail", "contact.Detail"} /\ ReturnedOk
        /\ \A f \in Fields(op) : Tagged(f) => ~IsZero(f.kind, rec[f.name])) =>
        LET echo == Obj(EchoOf(ret.vals, DOMAIN ret.vals))
            decoded == Unmarshal(op, echo, ZeroRecord(op)).rec
        IN  \A f \in Fields(op) :
               (Tagged(f) /\ f.kind = "string") => decoded[f.name] = rec[f.name]

-----------------------------------------------------------------------------
(* Further properties of the endpoint wrappers.                            *)

\* a record key of the parsed body whose value does not decode into a Detail
DecodeFails(k) ==
    IF op = "customer.Search"
    THEN Unmarshal("customer.Detail", data[k], ZeroRecord("customer.Detail")).err
    ELSE UnmarshalSlice("contact.Detail", data[k]).err

\* C24: in customer.Search and contact.Search a nested record that does not
\* decode makes the whole call return the decode error and a nil result,
\* whatever was decoded before it; no partial result is returned with a nil
\* error.
C24_DecodeFailureAborts ==
    (op \in {"customer.Search", "contact.Search"} /\ pc = "done" /\ rec.status = StatusOK
        /\ IsObj(rec.body) /\ \E k \in RecordKeys : DecodeFails(k)) =>
        /\ ret.err = ParseError
        /\ ret.isNil
        /\ ret.vals = EmptyValues

C24_Witness ==
    /\ op = "customer.Search"
    /\ pc = "done"
    /\ hist = <<"1", "3">>
    /\ data["3"] = Str("x")
    /\ Len(got.records) = 1
    /\ ret.err = ParseError
    /\ ret.isNil

\* customer.Modify has called CallAPI
ModifyCalled ==
    /\ op = "customer.Modify"
    /\ \/ pc = "status"
       \/ pc = "done" /\ urlValues # EmptyValues
                      /\ \A k \in DOMAIN hist : hist[k] \notin {"Details", "mergePrevious", "URLValues"}

\* C27: customer.Modify calls the modify endpoint only when Details, then
\* mergePrevious, then URLValues have succeeded, in that order; when one of
\* them fails no call is made; and the call carries 'customer-id' equal to
\* the ID of the record Details handed back.
C27_ModifyCallsLast ==
    /\ [](/\ ModifyCalled =>
                /\ prev \in ModifyPrevious
                /\ InvalidFields("customer.Detail", orig) = {}
                /\ got = Merged(orig, prev)
                /\ InvalidFields("customer.Detail", got) = {}
                /\ urlValues["customer-id"] = <<prev["ID"]>>
          /\ (op = "customer.Modify"
                /\ \E k \in DOMAIN hist : hist[k] \in {"Details", "mergePrevious", "URLValues"}) =>
                /\ pc = "done"
                /\ ~ModifyCalled)
    /\ [][op = "customer.Modify" =>
             /\ pc' = "merge" /\ pc # "merge" => pc = "details"
             /\ pc' = "encode" /\ pc # "encode" => pc = "merge"
             /\ pc' = "call" /\ pc # "call" => pc = "encode"
             /\ pc' = "status" /\ pc # "status" => pc = "call"]_vars

C27_Witness ==
    /\ op = "customer.Modify"
    /\ pc = "status"
    /\ orig["ID"] = "" /\ orig["Name"] = ""
    /\ prev["ID"] = "9" /\ prev["Name"] = "pn"
    /\ got["Name"] = "pn"
    /\ urlValues["customer-id"] = <<"9">>
    /\ urlValues["name"] = <<"pn">>

-----------------------------------------------------------------------------
(* Further properties of the encoders.                                     *)

\* C26: contact.Criteria.URLValues returns normally for every record that
\* passes validation, a record with a non-empty Type included: no goroutine
\* panics, and the result holds exactly one value under the wire key of each
\* non-zero tagged string or bool field.
C26_CriteriaReturnsNormally ==
    (op = "contact.Criteria" /\ InvalidFields(op, rec) = {}) =>
        /\ pc # "panic"
        /\ pc = "done" =>
              /\ ret.err = NoError
              /\ \A f \in Fields(op) :
                    (Tagged(f) /\ f.kind \in {"string", "bool"} /\ ~IsZero(f.kind, rec[f.name])) =>
                        ValuesAt(ret.vals, f.tag.name) =
                            <<IF f.kind = "bool" THEN FormatBool(rec[f.name]) ELSE rec[f.name]>>


\* the workers between rwMutex.Lock() and rwMutex.Unlock()
Holders == {w \in DOMAIN workers : workers[w].pc = "held"}
\* the call is over: the caller has returned, or a panic has ended the program
CallOver == ~Alive

\* a step that writes the shared parameter set is the holder's Add and Unlock
WriteUnderLock ==
    urlValues' # urlValues =>
        (rwMutex # Free /\ workers[rwMutex].pc = "held" /\ rwMutex' = Free)
\* the mutex leaves a holder only by that holder's Unlock, just before it returns
UnlockByHolder ==
    (rwMutex # Free /\ rwMutex' # rwMutex) =>
        (rwMutex' = Free /\ workers'[rwMutex].pc = "done")

\* C22: in the goroutine-based encoders at most one worker is between Lock
\* and Unlock at any time, the shared parameter set changes only in a step of
\* the worker holding the mutex, and every Lock is matched by an Unlock of
\* the same worker: the holder alone frees the mutex, and no call ends with
\* the mutex still locked.
C22_MutualExclusion ==
    /\ [](op \in ConcurrentEncoders =>
            /\ Cardinality(Holders) <= 1
            /\ Holders = (IF rwMutex = Free THEN {} ELSE {rwMutex})
            /\ CallOver => rwMutex = Free)
    /\ [][(op \in ConcurrentEncoders) => (WriteUnderLock /\ UnlockByHolder)]_vars


\* the Go scheduler runs every goroutine that can take a step, and a mutex
\* that is free is handed to one of the goroutines waiting for it
LiveSpec == Spec /\ WF_vars(Next)

\* every worker has run to its end and every WaitGroup counter is back at zero
AllFinished ==
    /\ \A w \in DOMAIN workers : workers[w].pc = "done"
    /\ \A g \in DOMAIN wg : wg[g] = 0
    /\ rwMutex = Free

\* C23: under fair scheduling every call of a goroutine-based encoder ends
\* with the caller returned, every worker finished after having released the
\* mutex, and every WaitGroup counter, the nested ones included, at zero; and
\* the caller never returns while a worker is still running.
C23_Terminates ==
    /\ <>[](op \in ConcurrentEncoders => (pc = "done" /\ AllFinished))
    /\ [](op \in ConcurrentEncoders /\ pc = "done" => AllFinished)


-----------------------------------------------------------------------------
(* contact.Default, from the response on: the body is an object of one     *)
(* object per contact type, whose members are merged into one map; a       *)
(* goroutine per member decodes it and stores it in the result.            *)
(*   rec    the response                    orig   exoSkeleton              *)
(*   hist   the keys of exoSkeleton ranged  data   contacts                 *)
(*   got    defaultContacts                                                 *)

\* the members of one element of the body at most
MaxInner == 3

\* case "registrant", "type", "tech", "billing", "admin": return
Denylist == {"registrant", "type", "tech", "billing", "admin"}

\* strings.TrimSuffix(key, suffix)
TrimSuffixText(key, suffix) ==
    IF Len(key) >= Len(suffix)
       /\ SubSeq(key, Len(key) - Len(suffix) + 1, Len(key)) = suffix
    THEN SubSeq(key, 1, Len(key) - Len(suffix))
    ELSE key

\* strings.NewReplacer("contact.", "", "entity.", "")
DefaultPrefixes == <<"contact.", "entity.">>

InnerMembers ==
    << <<"type", Str("Contact")>>,
       <<"registrant", Str("7")>>,
       <<"contact.registrantContactDetails", Obj(<< <<"contact.name", Str("A")>> >>)>>,
       <<"tech", Obj(<< <<"name", Str("T")>> >>)>>,
       <<"techContactDetails", Str("x")>>,
       <<"foo", Obj(<< <<"name", Str("B")>> >>)>>,
       <<"fooContactDetails", Obj(<< <<"name", Str("C")>> >>)>> >>

\* the bodies contact.Default is handed: one element, or two of which the
\* second has one member or is no object; the error envelope; a text that
\* is not JSON; and the empty object
DefaultBodies ==
    LET first == {Obj(Pick(InnerMembers, sel, 1)) :
                     sel \in {s \in SUBSET DOMAIN InnerMembers : Cardinality(s) <= MaxInner}}
        second == {Obj(<< <<"registrantContactDetails", Obj(<< <<"name", Str("Z")>> >>)>> >>),
                   Obj(<< <<"registrantContactDetails", Obj(<< <<"contact.name", Str("A")>> >>)>> >>),
                   Str("x")}
    IN  {Obj(<< <<"Contact", a>> >>) : a \in first}
          \cup {Obj(<< <<"Contact", a>>, <<"UkContact", b>> >>) : a \in first, b \in second}
          \cup {Obj(<< <<"status", Str("ERROR")>>, <<"message", Str("Invalid Customer")>> >>),
                Obj(<<>>), Malformed}

ExoSkeletonError == [kind |-> "failed while extract exoskeleton", fields |-> {}]

defaultFrame == <<op, rec, urlValues, prev>>

\* if resp.StatusCode != http.StatusOK { ...; return nil, errors.New(strings.ToLower(errResponse.Message)) }
DefaultError ==
    /\ op = "contact.Default"
    /\ pc = "status"
    /\ rec.status # StatusOK
    /\ LET errResponse == UnmarshalEnvelope(rec.body) IN
       IF errResponse.err THEN Fail(ParseError)
       ELSE Fail(UpstreamError(ToLower(errResponse.message)))
    /\ UNCHANGED <<i, workers, wg, rwMutex, orig, data, hist, got, defaultFrame>>

\* bytesResp = []byte(replacer.Replace(string(bytesResp)));
\* exoSkeleton := map[string]core.JSONBytes{}; json.Unmarshal(bytesResp, &exoSkeleton);
\* if len(exoSkeleton) == 0 { return nil, errors.New(...) }; contacts := map[string]core.JSONBytes{}
DefaultParse ==
    /\ op = "contact.Default"
    /\ pc = "status"
    /\ rec.status = StatusOK
    /\ LET strResp == ReplaceText(DefaultPrefixes, rec.body) IN
       IF ~IsObj(strResp)
       THEN Fail(ParseError) /\ UNCHANGED orig
       ELSE IF Len(strResp.obj) = 0
       THEN Fail(ExoSkeletonError) /\ UNCHANGED orig
       ELSE /\ orig' = MapOf(strResp.obj, Len(strResp.obj))
            /\ pc' = "merge"
            /\ ret' = ret
    /\ UNCHANGED <<i, workers, wg, rwMutex, data, hist, got, defaultFrame>>

\* for _, elem := range exoSkeleton { json.Unmarshal([]byte(elem), &contacts) }:
\* the members of elem are put into contacts, over the ones already there
\* (a map is ranged over in any order)
DefaultMerge(key) ==
    /\ op = "contact.Default"
    /\ pc = "merge"
    /\ key \in DOMAIN orig \ Range(hist)
    /\ LET elem == orig[key] IN
       IF ~IsObj(elem)
       THEN Fail(ParseError) /\ UNCHANGED <<data, hist, got, i>>
       ELSE /\ data' = MapOf(elem.obj, Len(elem.obj)) @@ data
            /\ hist' = Append(hist, key)
            /\ pc' = IF DOMAIN orig \ Range(hist) = {key} THEN "range" ELSE "merge"
            /\ got' = <<>>
            /\ i' = 0
            /\ ret' = ret
    /\ UNCHANGED <<workers, wg, rwMutex, orig, defaultFrame>>

\* for k, v := range contacts { wg.Add(1); go func(key string, val core.JSONBytes) {...}(k, v) }
DefaultSpawn(key) ==
    /\ op = "contact.Default"
    /\ pc = "range"
    /\ key \in DOMAIN data \ {workers[w].key : w \in DOMAIN workers}
    /\ Go(<<i + 1>>, Worker("run", key, "", FALSE))
    /\ i' = i + 1
    /\ UNCHANGED <<pc, rwMutex, ret, orig, data, hist, got, defaultFrame>>

\* switch key { case <the labels>: return
\*              default: ctc := Detail{}; if err := json.Unmarshal(bytesValue, &ctc); err != nil { return } }
DefaultWorker(w) ==
    /\ op = "contact.Default"
    /\ pc = "range"
    /\ workers[w].pc = "run"
    /\ IF workers[w].key \in Denylist
          \/ Unmarshal("contact.Detail", data[workers[w].key], ZeroRecord("contact.Detail")).err
       THEN Finish(w)
       ELSE /\ workers' = [workers EXCEPT ![w].pc = "want"]
            /\ wg' = wg
    /\ UNCHANGED <<pc, i, rwMutex, ret, orig, data, hist, got, defaultFrame>>

\* defaultContacts[strings.TrimSuffix(key, "ContactDetails")] = ctc; rwMutex.Unlock();
\* and the deferred wg.Done()
DefaultStore(w) ==
    /\ op = "contact.Default"
    /\ pc = "range"
    /\ workers[w].pc = "held"
    /\ got' = Store(got, TrimSuffixText(workers[w].key, "ContactDetails"),
                    Unmarshal("contact.Detail", data[workers[w].key],
                              ZeroRecord("contact.Detail")).rec)
    /\ rwMutex' = Free
    /\ Finish(w)
    /\ UNCHANGED <<pc, i, ret, orig, data, hist, defaultFrame>>

\* wg.Wait(); return defaultContacts, nil
DefaultReturn ==
    /\ op = "contact.Default"
    /\ pc = "range"
    /\ DOMAIN data = {workers[w].key : w \in DOMAIN workers}
    /\ wg[Main] = 0
    /\ ret' = Returned(got, FALSE, NoError)
    /\ pc' = "done"
    /\ UNCHANGED <<i, workers, wg, rwMutex, orig, data, hist, got, defaultFrame>>

\* the response, read to its end
DefaultInit ==
    /\ op = "contact.Default"
    /\ rec \in ([status : {StatusOK}, body : DefaultBodies]
                  \cup [status : {StatusError},
                        body : {b \in DefaultBodies : ~IsObj(b) \/ Len(b.obj) # 1}])
    /\ pc = "status"
    /\ i = 0
    /\ workers = <<>>
    /\ wg = (Main :> 0)
    /\ rwMutex = Free
    /\ urlValues = EmptyValues
    /\ ret = NotReturned
    /\ prev = <<>>
    /\ orig = <<>>
    /\ data = <<>>
    /\ hist = <<>>
    /\ got = <<>>

DefaultNext ==
    \/ DefaultError
    \/ DefaultParse
    \/ \E key \in DOMAIN orig : DefaultMerge(key)
    \/ \E key \in DOMAIN data : DefaultSpawn(key)
    \/ \E w \in DOMAIN workers : DefaultWorker(w)
    \/ \E w \in DOMAIN workers : Lock(w)
    \/ \E w \in DOMAIN workers : DefaultStore(w)
    \/ DefaultReturn

DefaultSpec == DefaultInit /\ [][DefaultNext]_vars

\* the members of the elements of the body, prefixes removed
InnerOf(body) ==
    LET strResp == ReplaceText(DefaultPrefixes, body) IN
    UNION {Range(strResp.obj[k][2].obj) : k \in DOMAIN strResp.obj}
\* the members that are no label and decode as a contact record
Admitted(body) ==
    {mb \in InnerOf(body) :
        /\ mb[1] \notin Denylist
        /\ ~Unmarshal("contact.Detail", mb[2], ZeroRecord("contact.Detail")).err}
\* a success body that is an object of objects
WellFormed(body) ==
    /\ IsObj(body) /\ Len(body.obj) > 0
    /\ \A k \in DOMAIN body.obj : IsObj(body.obj[k][2])

\* C25: on a success response whose elements are objects contact.Default
\* returns a nil error and the map that holds, for every inner member that is
\* no label of the denylist and decodes as a contact record, that record
\* under the member's key without the suffix 'ContactDetails', and nothing
\* else: members that fail to decode are left out, and the map is fixed by
\* the body, whatever the interleaving of the goroutines.
C25_DefaultMap ==
    (op = "contact.Default" /\ pc = "done" /\ rec.status = StatusOK /\ WellFormed(rec.body)) =>
        /\ ret.err = NoError
        /\ DOMAIN ret.vals = {TrimSuffixText(mb[1], "ContactDetails") : mb \in Admitted(rec.body)}
        /\ \A mb \in Admitted(rec.body) :
              ret.vals[TrimSuffixText(mb[1], "ContactDetails")]
                 = Unmarshal("contact.Detail", mb[2], ZeroRecord("contact.Detail")).rec


-----------------------------------------------------------------------------
(* The endpoint wrappers from their entry on: the guards, the parameters   *)
(* and the endpoint handed to CallAPI, the transport's answer and, where   *)
(* the body is decoded in one step, the result.  One client, on which the  *)
(* caller makes one call after another.                                    *)
(*   prev   the client (its core configuration)                            *)
(*   op, rec   the operation called and its arguments                      *)
(*   hist   the invocations of CallAPI the operation has made              *)
(*   orig   the response      ret   what the operation returned            *)
(*   got    the operation called before, and whether this call repeats it  *)
(*          with the same arguments                                        *)
(*   i      the calls made so far                                          *)

MaxCalls == 2

IDs == {"7", "x1"}
\* core.RgxEmail
RgxEmail(s) == s \in EmailStrings
\* matchPasswordWithPattern(password, true)
matchPasswordWithRange(password) ==
    ~(Len(password) < 9 \/ Len(password) > 16) /\ matchPasswordWithPattern(password)
\* regexp.MustCompile(`^https?://.*$`)
rgxURL(s) ==
    \/ Len(s) >= 7 /\ SubSeq(s, 1, 7) = "http://"
    \/ Len(s) >= 8 /\ SubSeq(s, 1, 8) = "https://"

\* what criteria.URLValues() hands back to Search
CriteriaOutcomes ==
    { [err |-> TRUE,  vals |-> EmptyValues],
      [err |-> FALSE, vals |-> ("status" :> <<"Active">>)] }

ErrRcInvalidCredential == [kind |-> "invalid credential", fields |-> {}]
GuardError(message) == [kind |-> message, fields |-> {}]

CustomerOps ==
    {"customer.Delete", "customer.Suspension", "customer.GenerateOTP", "customer.VerifyOTP",
     "customer.GenerateLoginToken", "customer.Search", "customer.Details",
     "customer.ChangePassword"}
ContactOps ==
    {"contact.Details", "contact.Delete", "contact.Default", "contact.SetDefault",
     "contact.ValidateRegistrant", "contact.AddExtraDetails", "contact.Search"}
DomainOps ==
    {"domain.CheckAvailability", "domain.SuggestNames", "domain.GetOrderID",
     "domain.GetRegistrationOrderDetails", "domain.ModifyNameServers",
     "domain.AddChildNameServer", "domain.ModifyPrivacyProtectionStatus",
     "domain.ModifyAuthCode", "domain.ApplyTheftProtectionLock",
     "domain.GetTheListOfLocksAppliedOnDomainName"}
DNSOps ==
    {"dns.AddingIPv4AddressRecord", "dns.AddingIPv6AddressRecord", "dns.AddingCNAMERecord",
     "dns.AddingMXRecord", "dns.AddingNSRecord", "dns.AddingTXTRecord", "dns.AddingSRVRecord"}

\* the arguments the caller passes
Arguments ==
    [o \in CustomerOps \cup ContactOps \cup DomainOps \cup DNSOps |->
    CASE o \in {"customer.Delete", "customer.GenerateOTP"} -> [customerID : IDs]
      [] o = "customer.Suspension" -> [toggle : BOOLEAN, customerID : IDs, reason : {"r"}]
      [] o = "customer.VerifyOTP" -> [customerID : IDs, otp : {"123456"}, authType : {"H_OTP"}]
      [] o = "customer.GenerateLoginToken" ->
           [customerID : IDs, ip : {"10.0.0.1"},
            dashboardBaseURL : {"", "https://d.io", "https://d.io/"}]
      [] o \in {"customer.Search"} ->
           [criteria : CriteriaOutcomes, offset : {0, 1}, limit : {9, 10, 500, 501}]
      [] o = "customer.Details" -> [customerIDOrEmail : {"7", "u@x.io", "x1"}]
      [] o = "customer.ChangePassword" ->
           [customerID : {"7"},
            newPassword : {"Secret.Pw9", "secretpw99", "aB.", "Secret.Pw9Secret.Pw9"}]
      [] o \in {"contact.Details", "contact.Delete"} -> [contactID : IDs]
      [] o = "contact.Default" -> [customerID : IDs, types : {<<>>, <<"Contact">>}]
      [] o = "contact.SetDefault" ->
           [customerID : IDs, regContactID : {"1"}, adminContactID : {"1"},
            techContactID : {"1"}, billContactID : IDs, types : {<<>>, <<"Contact">>}]
      [] o = "contact.ValidateRegistrant" ->
           [contactID : IDs, eligibilities : {<<>>, <<"CED_ASIAN_COUNTRY">>}]
      [] o = "contact.AddExtraDetails" ->
           [contactID : IDs, attributes : {"nil", "set"}, domainKeys : {<<>>, <<"dotasia">>}]
      [] o = "contact.Search" ->
           [criteria : CriteriaOutcomes, offset : {0, 1}, limit : {0, 10}]
      [] o = "domain.CheckAvailability" ->
           [domainName : {<<>>, <<"d">>}, tlds : {<<>>, <<"com">>}]
      [] o = "domain.SuggestNames" ->
           [keyword : {"domain"}, tldOnly : {""}, exactMatch : BOOLEAN, adult : {FALSE}]
      [] o = "domain.GetOrderID" -> [domainName : {"d.com"}]
      [] o = "domain.GetRegistrationOrderDetails" -> [orderID : {"7"}, options : {<<"All">>}]
      [] o = "domain.ModifyNameServers" ->
           [orderID : {"7"}, ns : {<<"ns1.domain.asia">>, <<"ns2.domain.asia">>}]
      [] o = "domain.AddChildNameServer" ->
           [orderID : {"7"}, cns : {"new.d.com"}, ips : {<<"0.0.0.0", "1.1.1.1">>}]
      [] o = "domain.ModifyPrivacyProtectionStatus" ->
           [orderID : {"7"}, protectPrivacy : BOOLEAN, reason : {"some reason"}]
      [] o = "domain.ModifyAuthCode" -> [orderID : {"7"}, authCode : {"a1"}]
      [] o \in {"domain.ApplyTheftProtectionLock", "domain.GetTheListOfLocksAppliedOnDomainName"} ->
           [orderID : {"7"}]
      [] o = "dns.AddingMXRecord" ->
           [domainName : {"d.com"}, value : {"v"}, host : {"h"}, ttl : {7200}, priority : {1}]
      [] o = "dns.AddingSRVRecord" ->
           [domainName : {"d.com"}, value : {"v"}, host : {"h"}, ttl : {7200}, priority : {1},
            port : {80}, weight : {5}]
      [] o \in DNSOps -> [domainName : {"d.com"}, value : {"v"}, host : {"h"}, ttl : {7200}] ]

\* c.core.CallAPI(method, namespace, apiName, data)
Call(method, namespace, apiName, params) ==
    [method |-> method, namespace |-> namespace, apiName |-> apiName, data |-> params]
\* data.Add(key, value) for each pair in turn
Params(pairs) == Collect(pairs, EmptyValues)
\* data[key] = append(data[key], values...)
Each(key, values) == [k \in DOMAIN values |-> <<key, values[k]>>]

\* the guards of the customer operations: the error returned before the call
CustomerGuard(o, a, client) ==
    CASE o \in {"customer.Delete", "customer.Suspension", "customer.GenerateOTP",
                "customer.VerifyOTP"} ->
           IF ~RgxNumber(a.customerID) THEN ErrRcInvalidCredential ELSE NoError
      [] o = "customer.GenerateLoginToken" ->
           IF ~RgxNumber(a.customerID) THEN GuardError("invalid format on customerid")
           ELSE IF client.IsProduction /\ ~rgxURL(a.dashboardBaseURL)
           THEN GuardError("dashboard's baseurl is required in production mode")
           ELSE NoError
      [] o = "customer.Search" ->
           IF a.limit < 10 \/ a.limit > 500 THEN GuardError("limit must be in range of 10 to 500")
           ELSE IF a.offset <= 0 THEN GuardError("offset must greater than 0")
           ELSE IF a.criteria.err THEN ValidationError({})
           ELSE NoError
      [] o = "customer.Details" ->
           IF ~RgxEmail(a.customerIDOrEmail) /\ ~RgxNumber(a.customerIDOrEmail)
           THEN ErrRcInvalidCredential ELSE NoError
      [] o = "customer.ChangePassword" ->
           IF ~matchPasswordWithRange(a.newPassword)
           THEN GuardError("invalid password format") ELSE NoError

\* the call each customer operation makes
CustomerCall(o, a) ==
    CASE o = "customer.Delete" ->
           Call("POST", "customers", "delete", Params(<< <<"customer-id", a.customerID>> >>))
      [] o = "customer.Suspension" ->
           Call("POST", "customers", IF a.toggle THEN "suspend" ELSE "unsuspend",
                Params(<< <<"customer-id", a.customerID>>, <<"reason", a.reason>> >>))
      [] o = "customer.GenerateOTP" ->
           Call("GET", "customers/authenticate", "generate-otp",
                Params(<< <<"customerid", a.customerID>> >>))
      [] o = "customer.VerifyOTP" ->
           Call("POST", "customers/authenticate", "verify-otp",
                Params(<< <<"customerid", a.customerID>>, <<"otp", a.otp>>,
                          <<"type", a.authType>> >>))
      [] o = "customer.GenerateLoginToken" ->
           Call("GET", "customers", "generate-login-token",
                Params(<< <<"customer-id", a.customerID>>, <<"ip", a.ip>> >>))
      [] o = "customer.Search" ->
           Call("GET", "customers", "search",
                Add(Add(a.criteria.vals, "no-of-records", Itoa(a.limit)),
                    "page-no", Itoa(a.offset)))
      [] o = "customer.Details" ->
           IF RgxEmail(a.customerIDOrEmail)
           THEN Call("GET", "customers", "details",
                     Params(<< <<"username", a.customerIDOrEmail>> >>))
           ELSE Call("GET", "customers", "details-by-id",
                     Params(<< <<"customer-id", a.customerIDOrEmail>> >>))
      [] o = "customer.ChangePassword" ->
           Call("POST", "customers/v2", "change-password",
                Params(<< <<"customer-id", a.customerID>>, <<"new-passwd", a.newPassword>> >>))

\* the guards of the contact operations, with the guard on the identifier left out
ContactGuardOfListsOnly(o, a) ==
    CASE o \in {"contact.Default", "contact.SetDefault"} ->
           IF Len(a.types) = 0 THEN GuardError("contact types must not empty") ELSE NoError
      [] o = "contact.ValidateRegistrant" ->
           IF Len(a.eligibilities) = 0 THEN GuardError("eligibilities must not empty")
           ELSE NoError
      [] o = "contact.AddExtraDetails" ->
           IF a.attributes = "nil" \/ Len(a.domainKeys) = 0
           THEN GuardError("attributes and domain keys cannot be nil or empty")
           ELSE NoError
      [] o = "contact.Search" ->
           IF a.offset <= 0 \/ a.limit <= 0
           THEN GuardError("offset or limit must greater than zero")
           ELSE IF a.criteria.err THEN ValidationError({})
           ELSE NoError
      [] OTHER -> NoError

\* the guards of the contact operations: the error returned before the call
ContactGuard(o, a) ==
    CASE o \in {"contact.Details", "contact.Delete"} ->
           IF ~RgxNumber(a.contactID) THEN ErrRcInvalidCredential ELSE NoError
      [] o = "contact.Default" ->
           IF Len(a.types) = 0 THEN GuardError("contact types must not empty")
           ELSE IF ~RgxNumber(a.customerID) THEN ErrRcInvalidCredential
           ELSE NoError
      [] o = "contact.SetDefault" ->
           IF Len(a.types) = 0 THEN GuardError("contact types must not empty")
           ELSE IF ~RgxNumber(a.customerID) \/ ~RgxNumber(a.regContactID)
                   \/ ~RgxNumber(a.adminContactID) \/ ~RgxNumber(a.techContactID)
                   \/ ~RgxNumber(a.billContactID)
           THEN ErrRcInvalidCredential
           ELSE NoError
      [] o = "contact.ValidateRegistrant" ->
           IF ~RgxNumber(a.contactID) THEN ErrRcInvalidCredential
           ELSE IF Len(a.eligibilities) = 0 THEN GuardError("eligibilities must not empty")
           ELSE NoError
      [] o = "contact.AddExtraDetails" ->
           IF ~RgxNumber(a.contactID) THEN ErrRcInvalidCredential
           ELSE IF a.attributes = "nil" \/ Len(a.domainKeys) = 0
           THEN GuardError("attributes and domain keys cannot be nil or empty")
           ELSE NoError
      [] o = "contact.Search" ->
           IF a.offset <= 0 \/ a.limit <= 0
           THEN GuardError("offset or limit must greater than zero")
           ELSE IF a.criteria.err THEN ValidationError({})
           ELSE NoError

\* the call each contact operation makes
ContactCall(o, a) ==
    CASE o = "contact.Details" ->
           Call("GET", "contacts", "details", Params(<< <<"contact-id", a.contactID>> >>))
      [] o = "contact.Delete" ->
           Call("POST", "contacts", "delete", Params(<< <<"contact-id", a.contactID>> >>))
      [] o = "contact.Default" ->
           Call("POST", "contacts", "default",
                Params(<< <<"customer-id", a.customerID>> >> \o Each("type", a.types)))
      [] o = "contact.SetDefault" ->
           Call("POST", "contacts", "modDefault",
                Params(<< <<"customer-id", a.customerID>>, <<"reg-contact-id", a.regContactID>>,
                          <<"admin-contact-id", a.adminContactID>>,
                          <<"tech-contact-id", a.techContactID>>,
                          <<"billing-contact-id", a.billContactID>> >>
                       \o Each("type", a.types)))
      [] o = "contact.ValidateRegistrant" ->
           Call("GET", "contacts", "validate-registrant",
                Params(<< <<"contact-id", a.contactID>> >>
                       \o Each("eligibility-criteria", a.eligibilities)))
      [] o = "contact.AddExtraDetails" ->
           Call("POST", "contacts", "set-details",
                Params(<< <<"contact-id", a.contactID>>, <<"attr-name1", "a">>,
                          <<"attr-value1", "1">> >>
                       \o Each("product-key", a.domainKeys)))
      [] o = "contact.Search" ->
           Call("GET", "contacts", "search",
                Add(Add(a.criteria.vals, "no-of-records", Itoa(a.limit)),
                    "page-no", Itoa(a.offset)))

\* the guard of domain.CheckAvailability; the other domain operations have none
DomainGuard(o, a) ==
    IF o = "domain.CheckAvailability" /\ (Len(a.domainName) = 0 \/ Len(a.tlds) = 0)
    THEN GuardError("domainnames and tlds must not empty")
    ELSE NoError

\* the call each domain operation makes
DomainCall(o, a) ==
    CASE o = "domain.CheckAvailability" ->
           Call("GET", "domains", "available",
                Params(Each("domain-name", a.domainName) \o Each("tlds", a.tlds)))
      [] o = "domain.SuggestNames" ->
           Call("GET", "domains/v5", "suggest-names",
                Params(<< <<"keyword", a.keyword>>, <<"tld-only", a.tldOnly>>,
                          <<"exact-match", FormatBool(a.exactMatch)>>,
                          <<"adult", FormatBool(a.adult)>> >>))
      [] o = "domain.GetOrderID" ->
           Call("GET", "domains", "orderid", Params(<< <<"domain-name", a.domainName>> >>))
      [] o = "domain.GetRegistrationOrderDetails" ->
           Call("GET", "domains", "details",
                Params(<< <<"order-id", a.orderID>> >> \o Each("options", a.options)))
      [] o = "domain.ModifyNameServers" ->
           Call("POST", "domains", "modify-ns",
                Params(<< <<"order-id", a.orderID>> >> \o Each("ns", a.ns)))
      [] o = "domain.AddChildNameServer" ->
           Call("POST", "domains", "add-cns",
                Params(<< <<"order-id", a.orderID>>, <<"cns", a.cns>> >> \o Each("ip", a.ips)))
      [] o = "domain.ModifyPrivacyProtectionStatus" ->
           Call("POST", "domains", "modify-privacy-protection",
                Params(<< <<"order-id", a.orderID>>,
                          <<"protect-privacy", FormatBool(a.protectPrivacy)>>,
                          <<"reason", a.reason>> >>))
      [] o = "domain.ModifyAuthCode" ->
           Call("POST", "domains", "modify-auth-code",
                Params(<< <<"order-id", a.orderID>>, <<"auth-code", a.authCode>> >>))
      [] o = "domain.ApplyTheftProtectionLock" ->
           Call("POST", "domains", "enable-theft-protection",
                Params(<< <<"order-id", a.orderID>> >>))
      [] o = "domain.GetTheListOfLocksAppliedOnDomainName" ->
           Call("GET", "domains", "locks", Params(<< <<"order-id", a.orderID>> >>))

\* the apiName each Adding<T>Record operation hands to CallAPI
AddRecordPath(o) ==
    CASE o = "dns.AddingIPv4AddressRecord" -> "manage/add-ipv4-record"
      [] o = "dns.AddingIPv6AddressRecord" -> "manage/add-ipv6-record"
      [] o = "dns.AddingCNAMERecord"       -> "manage/add-cname-record"
      [] o = "dns.AddingMXRecord"          -> "manage/add-mx-record"
      [] o = "dns.AddingNSRecord"          -> "manage/add-ns-record"
      [] o = "dns.AddingTXTRecord"         -> "manage/manage/add-ns-record"
      [] o = "dns.AddingSRVRecord"         -> "manage/add-srv-record"

\* the call each Adding<T>Record operation makes
DNSCall(o, a) ==
    Call("POST", "dns", AddRecordPath(o),
         Params(<< <<"domain-name", a.domainName>>, <<"value", a.value>>,
                   <<"host", a.host>>, <<"ttl", Itoa(a.ttl)>> >>
                \o (IF o \in {"dns.AddingMXRecord", "dns.AddingSRVRecord"}
                    THEN << <<"priority", Itoa(a.priority)>> >> ELSE <<>>)
                \o (IF o = "dns.AddingSRVRecord"
                    THEN << <<"port", Itoa(a.port)>>, <<"weight", Itoa(a.weight)>> >>
                    ELSE <<>>)))

\* a body that is plain text, no JSON
Text(s) == [text |-> s]
IsText(v) == "text" \in DOMAIN v

\* how the body of a success response is turned into the result
Shape(o) ==
    CASE o \in {"customer.Delete", "customer.Suspension", "customer.GenerateOTP",
                "customer.ChangePassword", "contact.AddExtraDetails"} -> "bool"
      [] o = "customer.VerifyOTP" -> "boolvalue"
      [] o = "customer.GenerateLoginToken" -> "token"
      [] o = "domain.GetOrderID" -> "text"
      [] o = "contact.SetDefault" -> "none"
      [] o \in {"customer.Details", "contact.Details"} -> "detail"
      [] o \in {"customer.Search", "contact.Search", "contact.Default"} -> "loop"
      [] OTHER -> "object"

\* the bodies the transport hands back
ClientBodies(o) ==
    {Obj(<< <<"status", Str("ERROR")>>, <<"message", Str("Invalid Order")>> >>), Malformed}
      \cup CASE Shape(o) \in {"bool", "boolvalue", "none"} -> {Bool(TRUE), Bool(FALSE)}
             [] Shape(o) = "token" -> {Text("t0k"), Text("a/b")}
             [] Shape(o) = "text" -> {Num(80340)}
             [] Shape(o) = "detail" -> {Obj(<< <<"name", Str("A")>> >>)}
             [] OTHER -> {Obj(<< <<"status", Str("Success")>> >>)}

\* the responses the transport hands back: a success with any of the bodies
\* (plain text where a token is asked for), a failure with the error envelope
\* or a text that is not JSON
ClientResponses(o) ==
    [status : {StatusOK}, body : {b \in ClientBodies(o) : Shape(o) = "token" => IsText(b)}]
      \cup [status : {StatusError}, body : {b \in ClientBodies(o) : ~IsBool(b) /\ ~IsText(b) /\ ~IsNum(b)}]

\* url.QueryEscape for the characters a token is made of
RECURSIVE QueryEscape(_)
QueryEscape(s) ==
    IF s = "" THEN ""
    ELSE LET c == SubSeq(s, 1, 1) IN
         (IF c = "/" THEN "%2F" ELSE IF c = " " THEN "+" ELSE c)
            \o QueryEscape(SubSeq(s, 2, Len(s)))

\* strings.TrimRight(s, "/")
RECURSIVE TrimRight(_)
TrimRight(s) ==
    IF s # "" /\ SubSeq(s, Len(s), Len(s)) = "/" THEN TrimRight(SubSeq(s, 1, Len(s) - 1))
    ELSE s

\* func (t loginToken) URLFullPath() string: data.Encode() sorts by key
URLFullPath(t) ==
    "servlet/AutoLoginServlet?" \o "role=customer" \o "&userLoginId=" \o QueryEscape(t.token)

\* func (t loginToken) LoginURL() string
LoginURL(t) == TrimRight(t.baseURL) \o URLFullPath(t)

\* baseURL := "http://demo.myorderbox.com"; if c.core.IsProduction() { ...; baseURL = dashboardBaseURL }
BaseURL(client, a) ==
    IF client.IsProduction THEN a.dashboardBaseURL ELSE "http://demo.myorderbox.com"

\* no response has been read
NoResponse == [status |-> 0, body |-> Malformed]

clientFrame == <<workers, wg, rwMutex, urlValues, data, prev>>

\* a call of operation o with arguments a: the guard, and CallAPI when it passes
Invoke(o, a, err, call) ==
    /\ pc = "idle"
    /\ i < MaxCalls
    /\ op' = o
    /\ rec' = a
    /\ i' = i + 1
    /\ got' = [op |-> op, same |-> (op = o /\ rec = a)]
    /\ orig' = NoResponse
    /\ IF err # NoError
       THEN /\ ret' = Returned(EmptyValues, TRUE, err)
            /\ hist' = <<>>
            /\ pc' = "idle"
       ELSE /\ ret' = NotReturned
            /\ hist' = <<call>>
            /\ pc' = "call"
    /\ UNCHANGED clientFrame

CustomerOperation(o, a) == Invoke(o, a, CustomerGuard(o, a, prev), CustomerCall(o, a))
ContactOperation(o, a) == Invoke(o, a, ContactGuard(o, a), ContactCall(o, a))
DomainOperation(o, a) == Invoke(o, a, DomainGuard(o, a), DomainCall(o, a))
DNSOperation(o, a) == Invoke(o, a, NoError, DNSCall(o, a))

\* t.LoginURL() on the token GenerateLoginToken has returned
TokenLoginURL ==
    /\ pc = "idle"
    /\ i < MaxCalls
    /\ op = "customer.GenerateLoginToken"
    /\ ret.tag = "returned" /\ ret.err = NoError
    /\ op' = "loginToken.LoginURL"
    /\ rec' = ret.vals
    /\ i' = i + 1
    /\ got' = [op |-> op, same |-> FALSE]
    /\ ret' = Returned(LoginURL(ret.vals), FALSE, NoError)
    /\ UNCHANGED <<pc, hist, orig, clientFrame>>

\* the result is put in place and the operation returns
Return(result) ==
    /\ ret' = result
    /\ pc' = "idle"

\* resp, err := c.core.CallAPI(...); if err != nil { return nil, err };
\* bytesResp, err := io.ReadAll(resp.Body); if err != nil { return nil, err }
Transport ==
    /\ pc = "call"
    /\ \/ /\ Return(Returned(EmptyValues, TRUE, TransportError))
          /\ orig' = orig
       \/ /\ orig' \in ClientResponses(op)
          /\ pc' = "status"
          /\ ret' = ret
    /\ UNCHANGED <<op, rec, i, hist, got, clientFrame>>

\* if resp.StatusCode != http.StatusOK { ...; return nil, errors.New(strings.ToLower(errResponse.Message)) }
ClientErrorStatus ==
    /\ pc = "status"
    /\ orig.status # StatusOK
    /\ LET errResponse == UnmarshalEnvelope(orig.body) IN
       IF errResponse.err THEN Return(Returned(EmptyValues, TRUE, ParseError))
       ELSE Return(Returned(EmptyValues, TRUE, UpstreamError(ToLower(errResponse.message))))
    /\ UNCHANGED <<op, rec, i, hist, orig, got, clientFrame>>

\* the decoded value dropped: a nil result with a nil error
ResultLeftNil(o, client, a, body) == Returned(EmptyValues, TRUE, NoError)

\* the result of a success response:
\*   var result T; if err := json.Unmarshal(bytesResp, &result); err != nil { return nil, err }; return &result, nil
\*   return string(bytesResp), nil
\*   boolResult, err := strconv.ParseBool(string(bytesResp)); ...
\*   token := &loginToken{baseURL: baseURL, token: string(bytesResp)}
Result(o, client, a, body) ==
    CASE Shape(o) = "object" ->
           IF IsObj(body) THEN Returned(body, FALSE, NoError)
           ELSE Returned(EmptyValues, TRUE, ParseError)
      [] Shape(o) = "detail" ->
           LET u == Unmarshal(DetailOf(o), body, ZeroRecord(DetailOf(o))) IN
           IF u.err THEN Returned(EmptyValues, TRUE, ParseError)
           ELSE Returned(u.rec, FALSE, NoError)
      [] Shape(o) = "text" -> Returned(body, FALSE, NoError)
      [] Shape(o) = "token" ->
           Returned([baseURL |-> BaseURL(client, a),
                     token |-> body.text],
                    FALSE, NoError)
      [] Shape(o) = "bool" ->
           IF ~IsBool(body) THEN Returned(EmptyValues, TRUE, ParseBoolError)
           ELSE IF ~body.bool THEN Returned(EmptyValues, TRUE, ErrRcOperationFailed)
           ELSE Returned(EmptyValues, TRUE, NoError)
      [] Shape(o) = "boolvalue" ->
           IF ~IsBool(body) THEN Returned(Bool(FALSE), FALSE, ParseBoolError)
           ELSE Returned(body, FALSE, NoError)
      [] Shape(o) = "none" -> Returned(EmptyValues, TRUE, NoError)

\* the operations whose body is decoded in one step return
ClientResult ==
    /\ pc = "status"
    /\ orig.status = StatusOK
    /\ Shape(op) # "loop"
    /\ Return(Result(op, prev, rec, orig.body))
    /\ UNCHANGED <<op, rec, i, hist, orig, got, clientFrame>>

\* New(core.New(core.Config{..., IsProduction: ...}, http.DefaultClient))
ClientInit ==
    /\ prev \in [IsProduction : BOOLEAN]
    /\ op = "New"
    /\ rec = <<>>
    /\ pc = "idle"
    /\ i = 0
    /\ workers = <<>>
    /\ wg = (Main :> 0)
    /\ rwMutex = Free
    /\ urlValues = EmptyValues
    /\ ret = NotReturned
    /\ orig = NoResponse
    /\ data = <<>>
    /\ hist = <<>>
    /\ got = NoCall

ClientNext ==
    \/ /\ pc = "idle"
       /\ \E o \in CustomerOps : \E a \in Arguments[o] : CustomerOperation(o, a)
    \/ /\ pc = "idle"
       /\ \E o \in ContactOps : \E a \in Arguments[o] : ContactOperation(o, a)
    \/ /\ pc = "idle"
       /\ \E o \in DomainOps : \E a \in Arguments[o] : DomainOperation(o, a)
    \/ /\ pc = "idle"
       /\ \E o \in DNSOps : \E a \in Arguments[o] : DNSOperation(o, a)
    \/ TokenLoginURL
    \/ Transport
    \/ ClientErrorStatus
    \/ ClientResult

ClientSpec == ClientInit /\ [][ClientNext]_vars


-----------------------------------------------------------------------------
(* Properties of the endpoint wrappers from their entry on.                *)

\* the domain operations the tests call
TestedOps ==
    {"domain.SuggestNames", "domain.GetOrderID", "domain.GetRegistrationOrderDetails",
     "domain.ModifyNameServers", "domain.AddChildNameServer",
     "domain.ModifyPrivacyProtectionStatus", "domain.ModifyAuthCode",
     "domain.ApplyTheftProtectionLock", "domain.GetTheListOfLocksAppliedOnDomainName"}
\* the transport succeeded, the status is 200 and the body parses as the target shape
Succeeds ==
    /\ pc = "idle"
    /\ orig.status = StatusOK
    /\ op = "domain.GetOrderID" \/ IsObj(orig.body)

\* C21: a tested domain operation whose transport succeeds with status 200
\* and a body of the target shape returns a nil error and a non-nil result,
\* decoded from that response; this holds for the first call and for every
\* later one, whatever was called before, and no step changes the client.
C21_TestedOperationsSucceed ==
    /\ []((op \in TestedOps /\ Succeeds) =>
             (ret.err = NoError /\ ~ret.isNil /\ ret.vals = orig.body))
    /\ [][prev' = prev]_vars

C21_Witness ==
    /\ op = "domain.ModifyNameServers"
    /\ i = 2
    /\ got.op = "domain.ModifyNameServers" /\ ~got.same
    /\ rec.ns = <<"ns2.domain.asia">>
    /\ hist = <<Call("POST", "domains", "modify-ns",
                     ("order-id" :> <<"7">>) @@ ("ns" :> <<"ns2.domain.asia">>))>>
    /\ Succeeds
    /\ ret = Returned(Obj(<< <<"status", Str("Success")>> >>), FALSE, NoError)

\* one of the guards named by the operations' preconditions fails on the arguments
PreconditionFails ==
    \/ /\ op \in {"contact.Details", "contact.Delete", "contact.ValidateRegistrant",
                  "contact.AddExtraDetails"}
       /\ ~RgxNumber(rec.contactID)
    \/ /\ op \in {"contact.Default", "contact.SetDefault", "customer.Delete",
                  "customer.Suspension", "customer.GenerateOTP", "customer.VerifyOTP",
                  "customer.GenerateLoginToken"}
       /\ ~RgxNumber(rec.customerID)
    \/ op = "contact.SetDefault" /\ ~RgxNumber(rec.billContactID)
    \/ op \in {"contact.Default", "contact.SetDefault"} /\ rec.types = <<>>
    \/ op = "contact.ValidateRegistrant" /\ rec.eligibilities = <<>>
    \/ op = "contact.AddExtraDetails" /\ rec.domainKeys = <<>>
    \/ op = "domain.CheckAvailability" /\ (rec.domainName = <<>> \/ rec.tlds = <<>>)
    \/ op = "customer.Search" /\ (rec.limit \notin 10..500 \/ rec.offset = 0)
    \/ op = "contact.Search" /\ (rec.offset = 0 \/ rec.limit = 0)
    \/ /\ op = "customer.Details"
       /\ rec.customerIDOrEmail \notin EmailStrings /\ ~RgxNumber(rec.customerIDOrEmail)
    \/ op = "customer.ChangePassword" /\ rec.newPassword # "Secret.Pw9"

\* C28: when a precondition guard fails - a non-numeric customer or contact
\* ID, an empty list of types, eligibilities, domain keys, domain names or
\* TLDs, a customer.Search limit outside 10..500 or offset 0, a
\* contact.Search offset or limit 0, a customer.Details identifier that is
\* neither e-mail nor number, a password outside the pattern - the operation
\* has returned an error and CallAPI has not been invoked.
C28_GuardFailureMakesNoCall ==
    PreconditionFails =>
        /\ hist = <<>>
        /\ pc = "idle"
        /\ ret.tag = "returned" /\ ret.err # NoError

C28_Witness ==
    /\ op = "contact.SetDefault"
    /\ rec.customerID = "7" /\ rec.billContactID = "x1" /\ rec.types = <<"Contact">>
    /\ pc = "idle"
    /\ hist = <<>>
    /\ ret = Returned(EmptyValues, TRUE, ErrRcInvalidCredential)

\* C29: LoginURL is the base URL, without the slashes it ends with, one '/',
\* and the path 'servlet/AutoLoginServlet?role=customer&userLoginId=<token>'.
C29_LoginURLHasOneSlash ==
    op = "loginToken.LoginURL" =>
        ret.vals = TrimRight(rec.baseURL) \o "/"
                      \o "servlet/AutoLoginServlet?role=customer&userLoginId="
                      \o QueryEscape(rec.token)

\* the name of the record type in the path of its add endpoint
RecordTypeOf(o) ==
    CASE o = "dns.AddingIPv4AddressRecord" -> "ipv4"
      [] o = "dns.AddingIPv6AddressRecord" -> "ipv6"
      [] o = "dns.AddingCNAMERecord"       -> "cname"
      [] o = "dns.AddingMXRecord"          -> "mx"
      [] o = "dns.AddingNSRecord"          -> "ns"
      [] o = "dns.AddingTXTRecord"         -> "txt"
      [] o = "dns.AddingSRVRecord"         -> "srv"

\* C30: every Adding<T>Record operation posts to 'manage/add-<t>-record' of
\* its own record type, so that no two of them post to the same path.
C30_AddEndpointOfOwnType ==
    (op \in DNSOps /\ hist # <<>>) =>
        /\ hist[1].method = "POST"
        /\ hist[1].apiName = "manage/add-" \o RecordTypeOf(op) \o "-record"
        /\ \A o \in DNSOps \ {op} : AddRecordPath(o) # hist[1].apiName

====
